---- MODULE Spec2Model ----
(***************************************************************************)
(* Model of javelin (src/src/main.rs): the release workflow of a Tauri     *)
(* application.  A run bumps the version stored in tauri.conf.json, runs   *)
(* the external build, renames the bundle, ensures a GitHub release,       *)
(* uploads the bundle as a release asset and records the release in a      *)
(* Gist manifest.                                                          *)
(*                                                                         *)
(* Strings that the program parses or formats (version strings) are        *)
(* sequences of one-character strings.  A u32 is a pair <<hi, lo>> of      *)
(* 16-bit limbs, so that the full 32-bit width is kept.                    *)
(***************************************************************************)
EXTENDS Integers, Sequences, FiniteSets, TLC

(***************************************************************************)
(* Characters and u32 arithmetic                                           *)
(***************************************************************************)

DigitChars == {"0", "1", "2", "3", "4", "5", "6", "7", "8", "9"}

DigitVal(c) ==
    CASE c = "0" -> 0 [] c = "1" -> 1 [] c = "2" -> 2 [] c = "3" -> 3
      [] c = "4" -> 4 [] c = "5" -> 5 [] c = "6" -> 6 [] c = "7" -> 7
      [] c = "8" -> 8 [] c = "9" -> 9

DigitChar(d) == <<"0", "1", "2", "3", "4", "5", "6", "7", "8", "9">>[d + 1]

\* One 16-bit limb of a u32.
Limb == 2 ^ 16

U32Zero == <<0, 0>>
U32Max == <<Limb - 1, Limb - 1>>

\* u32::checked_mul(10) followed by u32::checked_add(d): "overflow" when the
\* result does not fit in 32 bits.
U32CheckedMulAdd10(n, d) ==
    LET lo == n[2] * 10 + d
        hi == n[1] * 10 + (lo \div Limb)
    IN  IF hi >= Limb THEN [ok |-> FALSE, val |-> U32Zero]
        ELSE [ok |-> TRUE, val |-> <<hi, lo % Limb>>]

\* n + 1 modulo 2^32 (what `+= 1` computes when overflow checks are off).
U32WrappingInc(n) ==
    IF n[2] + 1 < Limb THEN <<n[1], n[2] + 1>>
    ELSE IF n[1] + 1 < Limb THEN <<n[1] + 1, 0>>
    ELSE U32Zero

\* Quotient and remainder of a u32 by ten.
U32Div10(n) ==
    LET t == (n[1] % 10) * Limb + n[2]
    IN  <<n[1] \div 10, t \div 10>>

U32Mod10(n) == ((n[1] % 10) * Limb + n[2]) % 10

\* Display for u32: the decimal digits, without sign or leading zeros.
RECURSIVE U32Display(_)
U32Display(n) ==
    IF n[1] = 0 /\ n[2] < 10 THEN <<DigitChar(n[2])>>
    ELSE Append(U32Display(U32Div10(n)), DigitChar(U32Mod10(n)))

\* str::parse::<u32>: an optional leading "+", then one or more decimal digits
\* whose value fits in 32 bits.  [ok |-> TRUE, val |-> n] or [ok |-> FALSE, ...].
ParseFail == [ok |-> FALSE, val |-> U32Zero]

RECURSIVE ParseDigits(_, _)
ParseDigits(acc, s) ==
    IF s = <<>> THEN [ok |-> TRUE, val |-> acc]
    ELSE IF Head(s) \notin DigitChars THEN ParseFail
    ELSE LET next == U32CheckedMulAdd10(acc, DigitVal(Head(s)))
         IN  IF ~next.ok THEN ParseFail ELSE ParseDigits(next.val, Tail(s))

parse_u32(s) ==
    IF s = <<>> THEN ParseFail
    ELSE IF s = <<"+">> \/ s = <<"-">> THEN ParseFail
    ELSE IF Head(s) = "+" THEN ParseDigits(U32Zero, Tail(s))
    ELSE ParseDigits(U32Zero, s)

\* str::split('.'): the pieces between the dots (an empty string gives one
\* empty piece).
RECURSIVE split_dot(_)
split_dot(s) ==
    IF \A i \in 1..Len(s) : s[i] # "."
    THEN <<s>>
    ELSE LET i == CHOOSE k \in 1..Len(s) :
                      s[k] = "." /\ \A j \in 1..(k - 1) : s[j] # "."
         IN  <<SubSeq(s, 1, i - 1)>> \o split_dot(SubSeq(s, i + 1, Len(s)))

\* format!("{}.{}.{}", a, b, c)
format_version(a, b, c) ==
    U32Display(a) \o <<".">> \o U32Display(b) \o <<".">> \o U32Display(c)


(***************************************************************************)
(* VersionStore: update_version                                            *)
(***************************************************************************)

UpdateTypes == {"Major", "Minor", "Patch", "Current"}

VARIABLES
    tauri_conf,         \* ../src-tauri/tauri.conf.json, as a JSON object
    javelin_conf,       \* tauri_javelin.conf.json, as a JSON object
    fs_files,           \* files under ../src-tauri/target/release/bundle
    releases,           \* GitHub: the repository's releases, oldest first
    gists,              \* GitHub: gist id -> file name -> file
    pc,                 \* where main is
    operating_system, architecture, platform_key,
    current_version,    \* package.version as read at start-up
    update_type, update_notes_str,
    new_version, sig_content, release, release_asset_url,
    github_gist,        \* gist_id as read from tauri_javelin.conf.json at start-up
    existing_content,   \* fetch_and_update_gist: the manifest as fetched
    calls,              \* the remote calls this run has issued, in order
    writes,             \* the local files this run has written, in order
    exit_code,          \* the process's exit status, once it has ended
    error,              \* what ended the run ("" while it runs or ends normally)
    latest_response,    \* get_latest_release: the answer to GET /releases/latest
    runs,               \* how many runs have been started
    peer                \* the run-local state of a second run going on at the
                        \* same time, while this one is looked at

run_vars == <<pc, operating_system, architecture, platform_key, current_version,
              update_type, update_notes_str, new_version, sig_content, release,
              release_asset_url, github_gist, existing_content, calls, writes,
              exit_code, error, latest_response>>
local_vars == <<tauri_conf, javelin_conf, fs_files>>
remote_vars == <<releases, gists>>
vars == <<local_vars, remote_vars, run_vars, runs, peer>>

Ok(v) == [kind |-> "Ok", value |-> v, err |-> ""]
Err(e) == [kind |-> "Err", value |-> <<>>, err |-> e]
Panic(e) == [kind |-> "Panic", value |-> <<>>, err |-> e]

\* `x += 1` on a u32: a panic when overflow checks are compiled in, and the
\* value modulo 2^32 when they are not.
U32AddAssign1(n, checks) ==
    IF n = U32Max /\ checks THEN [ok |-> FALSE, val |-> U32Zero]
    ELSE [ok |-> TRUE, val |-> U32WrappingInc(n)]

\* The segments of a version string, parsed; collect::<Result<Vec<_>, _>>
\* fails when any segment fails.
parse_segments(current_version_str) ==
    LET pieces == split_dot(current_version_str)
        parsed == [i \in 1..Len(pieces) |-> parse_u32(pieces[i])]
    IN  IF \E i \in 1..Len(parsed) : ~parsed[i].ok
        THEN [ok |-> FALSE, val |-> <<>>]
        ELSE [ok |-> TRUE, val |-> [i \in 1..Len(parsed) |-> parsed[i].val]]

\* update_version, lines 123-141: the match on the update type and the
\* formatting of the three segments.
bump_segments(segments, type, checks) ==
    LET a == segments[1]
        b == segments[2]
        c == segments[3]
        bumped == CASE type = "Major" -> U32AddAssign1(a, checks)
                    [] type = "Minor" -> U32AddAssign1(b, checks)
                    [] type = "Patch" -> U32AddAssign1(c, checks)
                    [] type = "Current" -> [ok |-> TRUE, val |-> c]
    IN  IF ~bumped.ok THEN Panic("attempt to add with overflow")
        ELSE CASE type = "Major" -> Ok(format_version(bumped.val, U32Zero, U32Zero))
               [] type = "Minor" -> Ok(format_version(a, bumped.val, U32Zero))
               [] type = "Patch" -> Ok(format_version(a, b, bumped.val))
               [] type = "Current" -> Ok(format_version(a, b, bumped.val))

\* Mutant: Current increments the patch segment, as Patch does.
update_version_current_bumps(current_version_str, type, checks) ==
    LET segments == parse_segments(current_version_str)
    IN  IF ~segments.ok THEN Err("Failed to parse version segments")
        ELSE IF Len(segments.val) # 3
        THEN Err("Version string does not have three segments")
        ELSE bump_segments(segments.val, IF type = "Current" THEN "Patch" ELSE type, checks)

\* Mutant: the number of segments is not checked; missing segments count as
\* zero and segments after the third are ignored.
update_version_any_length(current_version_str, type, checks) ==
    LET segments == parse_segments(current_version_str)
    IN  IF ~segments.ok THEN Err("Failed to parse version segments")
        ELSE bump_segments([i \in 1..3 |-> IF i <= Len(segments.val)
                                            THEN segments.val[i] ELSE U32Zero],
                           type, checks)

update_version(current_version_str, type, checks) ==
    LET segments == parse_segments(current_version_str)
    IN  IF ~segments.ok THEN Err("Failed to parse version segments")
        ELSE IF Len(segments.val) # 3
        THEN Err("Version string does not have three segments")
        ELSE bump_segments(segments.val, type, checks)

(***************************************************************************)
(* Local files                                                             *)
(***************************************************************************)

config_path == "tauri_javelin.conf.json"
tauri_config_path == "../src-tauri/tauri.conf.json"

github_username == "owner"
github_repo == "repo"
productName == "app"

\* serde_json: obj.insert(key, value) on a JSON object.
JsonInsert(obj, key, value) ==
    [k \in (DOMAIN obj) \cup {key} |-> IF k = key THEN value ELSE obj[k]]

\* What a JSON file is when it cannot be read as a JSON object: it cannot be
\* opened, its text is not JSON, or the JSON is not an object.
FileFaults == {"unreadable", "not_json", "not_an_object"}
Faulty(fault) == [fault |-> fault]
IsFaulty(file) == "fault" \in DOMAIN file

\* main.rs's reset_version_in_config: it puts a "version" key at the root of
\* the object and writes the file back; a file that cannot be read as an
\* object is left alone and an Err is returned.
reset_version_in_config(config, reset_version) ==
    IF IsFaulty(config)
    THEN [result |-> Err(config.fault), written |-> FALSE, file |-> config]
    ELSE [result |-> Ok(""), written |-> TRUE,
          file |-> JsonInsert(config, "version", reset_version)]

\* Mutant: the result of the rollback is unwrapped, so its failure panics.
exit_with_error_unwrapping(config, version) ==
    LET result == reset_version_in_config(config, version)
    IN  [file |-> result.file, written |-> result.written,
         code |-> IF result.result.kind = "Ok" THEN 1 ELSE 101]

\* exit_with_error!(config_path, current_version), config_path being
\* "tauri_javelin.conf.json": what it leaves in that file, and the status of
\* std::process::exit.  `result` is not looked at.
exit_with_error(config, version) ==
    LET result == reset_version_in_config(config, version)
    IN  [file |-> result.file, written |-> result.written, code |-> 1]

\* Mutant: the bumped version is returned but the file is left as it was.
read_and_update_version_unpersisted(conf, type, checks) ==
    [result |-> update_version(conf.package.version, type, checks),
     written |-> FALSE,
     file |-> conf]

\* read_and_update_version, on the parsed file: the result of update_version
\* and the file as it is afterwards (written only on Ok).
read_and_update_version(conf, type, checks) ==
    LET result == update_version(conf.package.version, type, checks)
    IN  [result |-> result,
         written |-> result.kind = "Ok",
         file |-> IF result.kind = "Ok"
                  THEN [conf EXCEPT !.package.version = result.value]
                  ELSE conf]

\* Mutant: the endpoint is added to the list.
update_tauri_config_endpoint_appending(conf, new_endpoint) ==
    [conf EXCEPT !.tauri.updater.endpoints = Append(@, new_endpoint)]

\* update_tauri_config_endpoint: tauri.updater.endpoints becomes [new_endpoint].
update_tauri_config_endpoint(conf, new_endpoint) ==
    [conf EXCEPT !.tauri.updater.endpoints = <<new_endpoint>>]

\* Mutant: the entry is not stored.
update_entry_in_config_dropped(config, key, new_value) ==
    [result |-> Ok(""), written |-> TRUE, file |-> config]

\* update_entry_in_config(config_path, ["gist_id"], new_value): the key is
\* set and the file written back; a file that cannot be read as an object is
\* left alone and an Err is returned.
update_entry_in_config(config, key, new_value) ==
    IF IsFaulty(config)
    THEN [result |-> Err(config.fault), written |-> FALSE, file |-> config]
    ELSE [result |-> Ok(""), written |-> TRUE, file |-> JsonInsert(config, key, new_value)]

(***************************************************************************)
(* Platform and paths                                                      *)
(***************************************************************************)

\* The (OS, ARCH) pairs a run is tried on; the last is not supported.
Machines == {<<"macos", "aarch64">>, <<"macos", "x86_64">>,
             <<"linux", "x86_64">>, <<"windows", "x86_64">>,
             <<"linux", "aarch64">>}

\* main's match on (OS, ARCH); "" stands for the panic arm.
platform_key_of(os, arch) ==
    CASE os = "macos" /\ arch = "aarch64" -> "darwin-aarch64"
      [] os = "macos" /\ arch # "aarch64" -> "darwin-x86_64"
      [] os = "linux" /\ arch = "x86_64" -> "linux-x86_64"
      [] os = "windows" /\ arch = "x86_64" -> "windows-x86_64"
      [] OTHER -> ""

\* A path below target/release/bundle: its directory, the platform key in the
\* file name ("" when there is none), the extension, and whether ".sig" follows.
BundlePath(dir, key, ext, sig) == [dir |-> dir, key |-> key, ext |-> ext, sig |-> sig]

BundleDir(os) ==
    CASE os = "macos" -> "macos" [] os = "windows" -> "msi" [] os = "linux" -> "appimage"

BundleExt(os) ==
    CASE os = "macos" -> "app.tar.gz" [] os = "windows" -> "msi.zip"
      [] os = "linux" -> "AppImage.tar.gz"

\* The signature path main reads: the macOS one, whatever the OS.
sig_file_path == BundlePath("macos", "", "app.tar.gz", TRUE)

bundle_filepath(os) == BundlePath(BundleDir(os), "", BundleExt(os), FALSE)

\* Mutant: the platform key is left out of the new name.
new_filepath_unkeyed(os, key) == BundlePath(BundleDir(os), "", BundleExt(os), FALSE)

new_filepath(os, key) == BundlePath(BundleDir(os), key, BundleExt(os), FALSE)

\* Path::file_name of the renamed artifact: "{productName}-{key}.{ext}".
file_name(path) == <<productName, path.key, path.ext>>

(***************************************************************************)
(* Manifest documents                                                      *)
(***************************************************************************)

PlatformKeys == {"darwin-aarch64", "darwin-x86_64", "linux-x86_64", "windows-x86_64"}

\* "{repo}-javelin-{platform_key}-manifest.json"
gist_filename(repo, key) == <<repo, "-javelin-", key, "-manifest.json">>

GistContentFields == {"version", "notes", "pub_date", "platforms"}
PlatformDetailFields == {"signature", "url"}

\* serde_json::from_str::<GistContent>: every field of the struct must be
\* there; fields the struct does not have are dropped.
GistContent_from_str(content) ==
    IF /\ GistContentFields \subseteq DOMAIN content
       /\ \A k \in DOMAIN content.platforms :
              PlatformDetailFields \subseteq DOMAIN content.platforms[k]
    THEN [ok |-> TRUE,
          val |-> [version |-> content.version,
                   notes |-> content.notes,
                   pub_date |-> content.pub_date,
                   platforms |-> [k \in DOMAIN content.platforms |->
                                     [signature |-> content.platforms[k].signature,
                                      url |-> content.platforms[k].url]]]]
    ELSE [ok |-> FALSE, val |-> <<>>]

\* serde_json::to_string_pretty(&GistContent): a JSON object of the four fields.
GistContent_to_string(doc) ==
    [version |-> doc.version, notes |-> doc.notes, pub_date |-> doc.pub_date,
     platforms |-> doc.platforms]

\* HashMap::insert
MapInsert(map, key, value) ==
    [k \in (DOMAIN map) \cup {key} |-> IF k = key THEN value ELSE map[k]]

\* Mutant: the platform mapping is rebuilt from the one new entry.
updated_content_blind(existing, version, notes, pub_date, key, detail) ==
    [version |-> version, notes |-> notes, pub_date |-> pub_date,
     platforms |-> key :> detail]

\* Mutant: the three scalar fields are kept as fetched.
updated_content_keeping_scalars(existing, version, notes, pub_date, key, detail) ==
    [version |-> existing.version, notes |-> existing.notes, pub_date |-> existing.pub_date,
     platforms |-> MapInsert(existing.platforms, key, detail)]

\* fetch_and_update_gist, between the GET and the PATCH: the three scalar
\* fields are overwritten and the platform's entry is inserted.
updated_content(existing, version, notes, pub_date, key, detail) ==
    [version |-> version, notes |-> notes, pub_date |-> pub_date,
     platforms |-> MapInsert(existing.platforms, key, detail)]

\* str::trim on the notes line read from stdin
trim(line) == [line EXCEPT !.newline = FALSE]


(***************************************************************************)
(* The workflow: main                                                      *)
(***************************************************************************)

\* How many runs of the tool a behaviour holds.
MaxRuns == 2

NoVersion == <<>>
NoNotes == [text |-> "", newline |-> FALSE]
NoContent == [kind |-> "", os |-> "", version |-> NoVersion]
NoRelease == [name |-> NoVersion, upload_url |-> 0]
NoAsset == [release |-> 0, name |-> <<>>]
NoResponse == [status |-> -1, decodable |-> FALSE, name |-> NoVersion, upload_url |-> 0]
NoDoc == [version |-> NoVersion, notes |-> NoNotes, pub_date |-> 0, platforms |-> <<>>]

\* No second run is going on.
NoPeer == [pc |-> "none"]

\* What the operator types at the update-type prompt, and at the notes prompt.
UpdateInputs == {"1", "2", "3", "4", "q", "x"}
NotesLine == [text |-> "notes", newline |-> TRUE]

\* A remote call, as it goes out: the operation, how the credential is sent,
\* the User-Agent header ("" when none is set) and the release name it carries.
Call(op, auth, user_agent, name) ==
    [op |-> op, auth |-> auth, user_agent |-> user_agent, name |-> name]

\* The run ends: std::process::exit(code), main returning (0 for Ok, 1 for
\* Err), or a panic (101).
Exit(code, what) == pc' = "exited" /\ exit_code' = code /\ error' = what

\* main at an exit_with_error!(config_path, &current_version).
ExitWithError(what) ==
    LET rollback == exit_with_error(javelin_conf, current_version)
    IN  /\ javelin_conf' = rollback.file
        /\ writes' = IF rollback.written THEN Append(writes, config_path) ELSE writes
        /\ Exit(rollback.code, what)

FreshRun(machine) ==
    /\ pc' = "start"
    /\ operating_system' = machine[1]
    /\ architecture' = machine[2]
    /\ platform_key' = ""
    /\ current_version' = NoVersion
    /\ update_type' = ""
    /\ update_notes_str' = NoNotes
    /\ new_version' = NoVersion
    /\ sig_content' = NoContent
    /\ release' = NoRelease
    /\ release_asset_url' = NoAsset
    /\ github_gist' = ""
    /\ existing_content' = NoDoc
    /\ calls' = <<>>
    /\ writes' = <<>>
    /\ exit_code' = -1
    /\ error' = ""
    /\ latest_response' = NoResponse

\* main, lines 512-538: the two config files are read and the platform key
\* is matched; an unmatched pair panics.
Startup ==
    /\ pc = "start"
    /\ github_gist' = javelin_conf.gist_id
    /\ current_version' = tauri_conf.package.version
    /\ platform_key' = platform_key_of(operating_system, architecture)
    /\ IF platform_key_of(operating_system, architecture) = ""
       THEN Exit(101, "unsupported_platform")
       ELSE pc' = "prompt" /\ UNCHANGED <<exit_code, error>>
    /\ UNCHANGED <<writes, latest_response, local_vars, remote_vars, runs, peer,
                   operating_system, architecture, update_type, update_notes_str,
                   new_version, sig_content, release, release_asset_url,
                   existing_content, calls>>

update_type_of(input) ==
    CASE input = "1" -> "Major" [] input = "2" -> "Minor"
      [] input = "3" -> "Patch" [] input = "4" -> "Current"

\* main, lines 561-587: the update type and the notes are read from stdin.
Prompt ==
    /\ pc = "prompt"
    /\ \E input \in UpdateInputs :
         \/ /\ input \in {"1", "2", "3", "4"}
            /\ update_type' = update_type_of(input)
            /\ update_notes_str' = NotesLine
            /\ pc' = "read_and_update_version"
            /\ UNCHANGED <<exit_code, error>>
         \/ /\ input = "q"
            /\ Exit(1, "quit")
            /\ UNCHANGED <<update_type, update_notes_str>>
         \/ /\ input \notin {"1", "2", "3", "4", "q"}
            /\ Exit(0, "invalid_update_type")
            /\ UNCHANGED <<update_type, update_notes_str>>
    /\ UNCHANGED <<writes, latest_response, local_vars, remote_vars, runs, peer,
                   operating_system, architecture, platform_key, current_version,
                   new_version, sig_content, release, release_asset_url,
                   github_gist, existing_content, calls>>

\* main, line 589: read_and_update_version(tauri_config_path, update_type)?
\* The tool may have been compiled with or without overflow checks.  An Err
\* makes main return it (exit status 1); a panic ends the process with 101.
ReadAndUpdateVersion ==
    /\ pc = "read_and_update_version"
    /\ \E overflow_checks \in BOOLEAN :
         LET r == read_and_update_version(tauri_conf, update_type, overflow_checks)
         IN  /\ tauri_conf' = r.file
             /\ writes' = IF r.written THEN Append(writes, tauri_config_path) ELSE writes
             /\ \/ /\ r.result.kind = "Ok"
                   /\ new_version' = r.result.value
                   /\ pc' = "secret_key"
                   /\ UNCHANGED <<exit_code, error>>
                \/ /\ r.result.kind # "Ok"
                   /\ Exit(IF r.result.kind = "Err" THEN 1 ELSE 101, "update_version")
                   /\ UNCHANGED new_version
    /\ UNCHANGED <<latest_response, javelin_conf, fs_files, remote_vars, runs, peer,
                   operating_system, architecture, platform_key, current_version,
                   update_type, update_notes_str, sig_content, release,
                   release_asset_url, github_gist, existing_content, calls>>

\* main, lines 593-595: the secret key file is read; .expect panics when it
\* cannot be.
ReadSecretKey ==
    /\ pc = "secret_key"
    /\ \/ pc' = "build" /\ UNCHANGED <<exit_code, error>>
       \/ Exit(101, "secret_key_missing")
    /\ UNCHANGED <<writes, latest_response, local_vars, remote_vars, runs, peer,
                   operating_system, architecture, platform_key, current_version,
                   update_type, update_notes_str, new_version, sig_content,
                   release, release_asset_url, github_gist, existing_content, calls>>

\* What a build that reports success may have left on disk: the bundle of
\* the running OS, its signature beside it, both, each built from the version
\* tauri.conf.json held.
BuildOutputs(os, version) ==
    LET bundle == bundle_filepath(os)
        sig == [bundle EXCEPT !.sig = TRUE]
        b == bundle :> [kind |-> "bundle", os |-> os, version |-> version]
        g == sig :> [kind |-> "sig", os |-> os, version |-> version]
    IN  {b @@ g, b, g}

\* Mutant: after a successful build main goes on to the bundle, the
\* signature unread.
Build_without_signature ==
    /\ pc = "build"
    /\ \/ /\ Exit(1, "build_not_started")
          /\ UNCHANGED <<javelin_conf, fs_files, writes>>
       \/ /\ ExitWithError("build_failed")
          /\ UNCHANGED fs_files
       \/ /\ \E out \in BuildOutputs(operating_system, tauri_conf.package.version) :
                 fs_files' = out @@ fs_files
          /\ pc' = "rename"
          /\ UNCHANGED <<javelin_conf, writes, exit_code, error>>
    /\ UNCHANGED <<latest_response, tauri_conf, remote_vars, runs, peer,
                   operating_system, architecture, platform_key, current_version,
                   update_type, update_notes_str, new_version, sig_content,
                   release, release_asset_url, github_gist, existing_content, calls>>

\* main, lines 618-641: `tauri build` is run.  It cannot be started (?), it
\* exits with failure (exit_with_error!), or it exits with success.
Build ==
    /\ pc = "build"
    /\ \/ /\ Exit(1, "build_not_started")
          /\ UNCHANGED <<javelin_conf, fs_files, writes>>
       \/ /\ ExitWithError("build_failed")
          /\ UNCHANGED fs_files
       \/ /\ \E out \in BuildOutputs(operating_system, tauri_conf.package.version) :
                 fs_files' = out @@ fs_files
          /\ pc' = "read_sig"
          /\ UNCHANGED <<javelin_conf, writes, exit_code, error>>
    /\ UNCHANGED <<latest_response, tauri_conf, remote_vars, runs, peer,
                   operating_system, architecture, platform_key, current_version,
                   update_type, update_notes_str, new_version, sig_content,
                   release, release_asset_url, github_gist, existing_content, calls>>

\* main, lines 627-634: the signature file is read; .expect panics when it
\* is not there.
ReadSignature ==
    /\ pc = "read_sig"
    /\ IF sig_file_path \in DOMAIN fs_files
       THEN /\ sig_content' = fs_files[sig_file_path]
            /\ pc' = "rename"
            /\ UNCHANGED <<exit_code, error>>
       ELSE /\ Exit(101, "signature_missing")
            /\ UNCHANGED sig_content
    /\ UNCHANGED <<writes, latest_response, local_vars, remote_vars, runs, peer,
                   operating_system, architecture, platform_key, current_version,
                   update_type, update_notes_str, new_version,
                   release, release_asset_url, github_gist, existing_content, calls>>

\* main, lines 652-686: fs::rename(bundle_filepath, new_filepath); .expect
\* panics when the bundle is not there.
RenameArtifact ==
    /\ pc = "rename"
    /\ LET from == bundle_filepath(operating_system)
           to == new_filepath(operating_system, platform_key)
       IN  IF from \in DOMAIN fs_files
           THEN /\ fs_files' = [p \in ((DOMAIN fs_files) \ {from}) \cup {to} |->
                                   IF p = to THEN fs_files[from] ELSE fs_files[p]]
                /\ pc' = "get_latest_release"
                /\ UNCHANGED <<exit_code, error>>
           ELSE /\ Exit(101, "bundle_missing")
                /\ UNCHANGED fs_files
    /\ UNCHANGED <<writes, latest_response, tauri_conf, javelin_conf, remote_vars, runs, peer,
                   operating_system, architecture, platform_key, current_version,
                   update_type, update_notes_str, new_version, sig_content,
                   release, release_asset_url, github_gist, existing_content, calls>>


(***************************************************************************)
(* ReleasePublisher                                                        *)
(***************************************************************************)

ReleaseNames == {releases[i].name : i \in 1..Len(releases)}

\* What GET /releases/latest can answer: nothing (the request fails in
\* transport, status 0 here), a status that is neither 200 nor 404, or what
\* the repository holds: 404 when it has no release, and otherwise 200 with
\* the newest release, in a body that decodes as a Release or does not.
LatestResponses ==
    {[status |-> 0, decodable |-> FALSE, name |-> NoVersion, upload_url |-> 0],
     [status |-> 500, decodable |-> FALSE, name |-> NoVersion, upload_url |-> 0]}
    \cup (IF releases = <<>>
          THEN {[status |-> 404, decodable |-> FALSE, name |-> NoVersion, upload_url |-> 0]}
          ELSE {[status |-> 200, decodable |-> d, name |-> releases[Len(releases)].name,
                 upload_url |-> Len(releases)] : d \in BOOLEAN})

\* Mutant: the name of the latest release is not compared with the target.
latest_release_match_no_reuse(response, version) ==
    IF response.status = 0 THEN "create"
    ELSE IF response.status = 200
         THEN IF ~response.decodable THEN "error" ELSE "create"
    ELSE IF response.status = 404 THEN "create"
    ELSE "error"

\* Mutant: every status but 200 leads to a create call.
latest_release_match_create_on_any(response, version) ==
    IF response.status = 0 THEN "create"
    ELSE IF response.status = 200
         THEN IF ~response.decodable THEN "error"
              ELSE IF version = response.name THEN "reuse" ELSE "create"
    ELSE "create"

\* Mutant: a release is reused whenever the lookup answers 200.
latest_release_match_always_reuse(response, version) ==
    IF response.status = 0 THEN "create"
    ELSE IF response.status = 200
         THEN IF ~response.decodable THEN "error" ELSE "reuse"
    ELSE IF response.status = 404 THEN "create"
    ELSE "error"

\* get_latest_release, lines 233-265: what the match on the response does;
\* "reuse" returns the release, "create" calls create_github_release, "error"
\* returns an Err.
latest_release_match(response, version) ==
    IF response.status = 0 THEN "create"
    ELSE IF response.status = 200
         THEN IF ~response.decodable THEN "error"
              ELSE IF version = response.name THEN "reuse" ELSE "create"
    ELSE IF response.status = 404 THEN "create"
    ELSE "error"

\* get_latest_release, lines 212-266, up to the point where it returns or
\* calls create_github_release; an Err makes main return it.
GetLatestRelease ==
    /\ pc = "get_latest_release"
    /\ calls' = Append(calls, Call("get_latest_release", "bearer", "reqwest", NoVersion))
    /\ \E response \in LatestResponses :
         /\ latest_response' = response
         /\ \/ /\ latest_release_match(response, new_version) = "reuse"
               /\ release' = [name |-> response.name, upload_url |-> response.upload_url]
               /\ pc' = "upload"
               /\ UNCHANGED <<exit_code, error>>
            \/ /\ latest_release_match(response, new_version) = "create"
               /\ pc' = "create_release"
               /\ UNCHANGED <<release, exit_code, error>>
            \/ /\ latest_release_match(response, new_version) = "error"
               /\ Exit(1, "get_latest_release")
               /\ UNCHANGED release
    /\ UNCHANGED <<writes, local_vars, remote_vars, runs, peer,
                   operating_system, architecture, platform_key, current_version,
                   update_type, update_notes_str, new_version, sig_content,
                   release_asset_url, github_gist, existing_content>>

\* create_github_release, lines 271-300: POST /releases with tag_name and name
\* the version.  GitHub refuses a tag that a release already has.
CreateGithubRelease ==
    /\ pc = "create_release"
    /\ calls' = Append(calls, Call("create_release", "bearer", "tauri_javelin", new_version))
    /\ \/ /\ new_version \notin ReleaseNames
          /\ releases' = Append(releases, [name |-> new_version, assets |-> {}])
          /\ release' = [name |-> new_version, upload_url |-> Len(releases) + 1]
          /\ pc' = "upload"
          /\ UNCHANGED <<exit_code, error>>
       \/ /\ Exit(1, "create_release")
          /\ UNCHANGED <<release, releases>>
    /\ UNCHANGED <<writes, latest_response, local_vars, gists, runs, peer,
                   operating_system, architecture, platform_key, current_version,
                   update_type, update_notes_str, new_version, sig_content,
                   release_asset_url, github_gist, existing_content>>

\* upload_release_asset, lines 308-342, and main's branch on gist_id
\* (line 713).  GitHub refuses a second asset of the same name on a release.
UploadReleaseAsset ==
    /\ pc = "upload"
    /\ calls' = Append(calls, Call("upload_asset", "token", "", release.name))
    /\ LET name == file_name(new_filepath(operating_system, platform_key))
           r == releases[release.upload_url]
       IN  \/ /\ name \notin r.assets
              /\ releases' = [releases EXCEPT ![release.upload_url].assets = @ \cup {name}]
              /\ release_asset_url' = [release |-> release.upload_url, name |-> name]
              /\ pc' = IF github_gist # "" THEN "gist_fetch" ELSE "gist_create"
              /\ UNCHANGED <<exit_code, error>>
           \/ /\ Exit(1, "upload_asset")
              /\ UNCHANGED <<releases, release_asset_url>>
    /\ UNCHANGED <<writes, latest_response, local_vars, gists, runs, peer,
                   operating_system, architecture, platform_key, current_version,
                   update_type, update_notes_str, new_version, sig_content,
                   release, github_gist, existing_content>>

(***************************************************************************)
(* ManifestStore                                                           *)
(***************************************************************************)

new_platform_detail == [signature |-> sig_content, url |-> release_asset_url]

\* Utc::now(), to the second: the run's number stands for the time.
current_time == runs

\* The identifier GitHub gives the next gist.
NextGistId == ToString(Cardinality(DOMAIN gists) + 1)

\* "https://gist.github.com/{}/{}/raw"
gist_updater_endpoint(username, gist_id) ==
    <<"https://gist.github.com/", username, "/", gist_id, "/raw">>

\* Mutant: a file that is missing or has no content counts as an empty
\* manifest.
gist_file_content_defaulting(files, filename) ==
    IF filename \notin DOMAIN files \/ ~files[filename].has_content
    THEN Ok(NoDoc)
    ELSE IF ~GistContent_from_str(files[filename].content).ok
         THEN Err("gist_content_undecodable")
         ELSE Ok(GistContent_from_str(files[filename].content).val)

\* fetch_and_update_gist, lines 817-823 and 861-866: the file of the gist's
\* "files" is looked up by name, its "content" is taken and decoded.
gist_file_content(files, filename) ==
    IF filename \notin DOMAIN files THEN Err("gist_file_not_found")
    ELSE IF ~files[filename].has_content THEN Err("gist_file_without_content")
    ELSE IF ~GistContent_from_str(files[filename].content).ok
         THEN Err("gist_content_undecodable")
         ELSE Ok(GistContent_from_str(files[filename].content).val)

\* fetch_and_update_gist, lines 800-834: GET /gists/{id}, the file is looked
\* up and decoded.  Every error reaches main's exit_with_error!.
GistFetch ==
    /\ pc = "gist_fetch"
    /\ calls' = Append(calls, Call("get_gist", "bearer", "tauri_javelin", NoVersion))
    /\ LET filename == gist_filename(github_repo, platform_key)
           FailWith(what) ==
               /\ ExitWithError(what)
               /\ UNCHANGED existing_content
       IN  \/ \* the request fails or is answered with a non-success status
              FailWith("get_gist")
           \/ \* the file is not there, has no content, or does not decode
              /\ github_gist \in DOMAIN gists
              /\ gist_file_content(gists[github_gist], filename).kind = "Err"
              /\ FailWith(gist_file_content(gists[github_gist], filename).err)
           \/ /\ github_gist \in DOMAIN gists
              /\ gist_file_content(gists[github_gist], filename).kind = "Ok"
              /\ existing_content' = gist_file_content(gists[github_gist], filename).value
              /\ pc' = "gist_patch"
              /\ UNCHANGED <<javelin_conf, writes, exit_code, error>>
    /\ UNCHANGED <<tauri_conf, fs_files, remote_vars, runs, peer,
                   operating_system, architecture, platform_key, current_version,
                   update_type, update_notes_str, new_version, sig_content,
                   release, release_asset_url, github_gist, latest_response>>

\* fetch_and_update_gist, lines 825-860: the document is updated and PATCHed
\* back into the one file; then main ends with Ok(()).
GistPatch ==
    /\ pc = "gist_patch"
    /\ calls' = Append(calls, Call("patch_gist", "bearer", "tauri_javelin", NoVersion))
    /\ LET filename == gist_filename(github_repo, platform_key)
           doc == updated_content(existing_content, new_version, update_notes_str,
                                  current_time, platform_key, new_platform_detail)
       IN  \/ /\ github_gist \in DOMAIN gists
              /\ gists' = [gists EXCEPT ![github_gist] =
                              MapInsert(@, filename,
                                        [has_content |-> TRUE,
                                         content |-> GistContent_to_string(doc)])]
              /\ Exit(0, "")
              /\ UNCHANGED <<javelin_conf, writes>>
           \/ /\ ExitWithError("patch_gist")
              /\ UNCHANGED gists
    /\ UNCHANGED <<latest_response, tauri_conf, fs_files, releases, runs, peer,
                   operating_system, architecture, platform_key, current_version,
                   update_type, update_notes_str, new_version, sig_content,
                   release, release_asset_url, github_gist, existing_content>>

\* Mutant: the identifier of the answer is used without looking at it.
create_and_upload_gist_unchecked(conf, username, gist_id) ==
    [result |-> Ok(gist_id),
     written |-> TRUE,
     file |-> update_tauri_config_endpoint(conf, gist_updater_endpoint(username, gist_id))]

\* create_and_upload_gist, lines 438-453, on a successful answer: gist_id is
\* its "id", "" when it has none; the result, and tauri.conf.json as it is
\* afterwards.
create_and_upload_gist(conf, username, gist_id) ==
    IF gist_id # ""
    THEN [result |-> Ok(gist_id),
          written |-> TRUE,
          file |-> update_tauri_config_endpoint(conf, gist_updater_endpoint(username, gist_id))]
    ELSE [result |-> Err("gist_created_without_id"), written |-> FALSE, file |-> conf]

\* main, lines 738-775, with create_and_upload_gist, lines 399-469: POST
\* /gists with the one file; the endpoint list and gist_id are stored when
\* the answer names the new gist.
GistCreate ==
    /\ pc = "gist_create"
    /\ calls' = Append(calls, Call("create_gist", "bearer", "tauri_javelin", NoVersion))
    /\ LET filename == gist_filename(github_repo, platform_key)
           gist_content == [version |-> new_version,
                            notes |-> trim(update_notes_str),
                            pub_date |-> current_time,
                            platforms |-> platform_key :> new_platform_detail]
           created == MapInsert(gists, NextGistId,
                                filename :> [has_content |-> TRUE,
                                             content |-> GistContent_to_string(gist_content)])
       IN  \/ \* the request fails or is refused
              /\ ExitWithError("create_gist")
              /\ UNCHANGED <<gists, tauri_conf>>
           \/ \* the gist is created; the answer names it or does not
              /\ gists' = created
              /\ \E gist_id \in {NextGistId, ""} :
                    LET r == create_and_upload_gist(tauri_conf, github_username, gist_id)
                    IN  /\ tauri_conf' = r.file
                        /\ IF r.result.kind = "Ok"
                           THEN LET stored == update_entry_in_config(
                                                   javelin_conf, "gist_id", r.result.value)
                                    rollback == exit_with_error(javelin_conf, current_version)
                                IN  IF stored.result.kind = "Ok"
                                    THEN /\ javelin_conf' = stored.file
                                         /\ writes' = writes \o <<tauri_config_path>>
                                                \o (IF stored.written THEN <<config_path>>
                                                                      ELSE <<>>)
                                         /\ Exit(0, "")
                                    ELSE /\ javelin_conf' = rollback.file
                                         /\ writes' = writes \o <<tauri_config_path>>
                                                \o (IF rollback.written THEN <<config_path>>
                                                                        ELSE <<>>)
                                         /\ Exit(rollback.code, "update_entry_in_config")
                           ELSE /\ ExitWithError(r.result.err)
    /\ UNCHANGED <<latest_response, fs_files, releases, runs, peer,
                   operating_system, architecture, platform_key, current_version,
                   update_type, update_notes_str, new_version, sig_content,
                   release, release_asset_url, github_gist, existing_content>>

\* The tool is started again, on the same machine and the same files.
NewRun ==
    /\ pc = "exited"
    /\ runs < MaxRuns
    /\ runs' = runs + 1
    /\ FreshRun(<<operating_system, architecture>>)
    /\ UNCHANGED <<local_vars, remote_vars, peer>>

(***************************************************************************)
(* Specification of the workflow                                           *)
(***************************************************************************)

\* package.version of tauri.conf.json before the first run.
WorkflowVersions == {<<"1", ".", "2", ".", "3">>,
                     <<"0", "1", ".", "2", ".", "3">>,
                     <<"+", "1", ".", "2", ".", "3">>,
                     <<"1", ".", "2", ".", "x">>}

TauriConf(version) ==
    [package |-> [productName |-> productName, version |-> version],
     tauri |-> [updater |-> [pubkey |-> "pubkey", endpoints |-> <<>>]]]

JavelinConf(gist_id) ==
    [github_username |-> github_username, github_repo |-> github_repo,
     github_pat |-> "pat", secret_key_location |-> "~/.tauri/key",
     secret_key_password |-> "password", gist_id |-> gist_id]

\* A platform's entry and a manifest as an earlier release left them.
OldDetail(key) ==
    [signature |-> [kind |-> "sig", os |-> "macos", version |-> <<"1", ".", "0", ".", "0">>],
     url |-> [release |-> 0, name |-> <<productName, key, "app.tar.gz">>]]

OldDoc(keys) ==
    [version |-> <<"1", ".", "0", ".", "0">>, notes |-> [text |-> "x", newline |-> FALSE],
     pub_date |-> 0, platforms |-> [k \in keys |-> OldDetail(k)]]

GistFile(content) == [has_content |-> TRUE, content |-> content]

\* What GET /gists/{id} leaves out for a file without content.
FileWithoutContent == [has_content |-> FALSE, content |-> <<>>]

\* tauri.updater.endpoints before the first run: two addresses of another
\* update server when no gist is configured, and the gist's address else.
InitialEndpoints(gist_id) ==
    IF gist_id = ""
    THEN <<<<"https://releases.example/", "a">>, <<"https://releases.example/", "b">>>>
    ELSE <<gist_updater_endpoint(github_username, gist_id)>>

\* The gist configured before the first run: none, or gist "g0" holding
\* manifest files of the two macOS platforms in different conditions.
InitialGists ==
    {[gist_id |-> "", gists |-> <<>>],
     [gist_id |-> "g0",
      gists |-> "g0" :> (gist_filename(github_repo, "darwin-aarch64")
                             :> GistFile(GistContent_to_string(OldDoc({"darwin-aarch64"})))
                         @@ gist_filename(github_repo, "darwin-x86_64")
                             :> FileWithoutContent)],
     [gist_id |-> "g0",
      gists |-> "g0" :> (gist_filename(github_repo, "darwin-aarch64")
                             :> GistFile([version |-> <<"1", ".", "0", ".", "0">>]))]}

Init ==
    /\ \E v \in WorkflowVersions, g \in InitialGists :
          /\ tauri_conf = [TauriConf(v) EXCEPT
                               !.tauri.updater.endpoints = InitialEndpoints(g.gist_id)]
          /\ javelin_conf = JavelinConf(g.gist_id)
          /\ gists = g.gists
    /\ fs_files = <<>>
    /\ releases = <<>>
    /\ runs = 1
    /\ peer = NoPeer
    /\ pc = "start"
    /\ \E machine \in Machines :
          /\ operating_system = machine[1]
          /\ architecture = machine[2]
    /\ platform_key = ""
    /\ current_version = NoVersion
    /\ update_type = ""
    /\ update_notes_str = NoNotes
    /\ new_version = NoVersion
    /\ sig_content = NoContent
    /\ release = NoRelease
    /\ release_asset_url = NoAsset
    /\ github_gist = ""
    /\ existing_content = NoDoc
    /\ calls = <<>>
    /\ writes = <<>>
    /\ exit_code = -1
    /\ error = ""
    /\ latest_response = NoResponse

Next ==
    \/ Startup
    \/ Prompt
    \/ ReadAndUpdateVersion
    \/ ReadSecretKey
    \/ Build
    \/ ReadSignature
    \/ RenameArtifact
    \/ GetLatestRelease
    \/ CreateGithubRelease
    \/ UploadReleaseAsset
    \/ GistFetch
    \/ GistPatch
    \/ GistCreate
    \/ NewRun

Spec == Init /\ [][Next]_vars


(***************************************************************************)
(* Specification of fetch_and_update_gist alone: a run that has uploaded   *)
(* its asset and finds a gist configured, over many manifest documents     *)
(***************************************************************************)

\* How many platform entries a manifest holds before the update, at most.
MaxPlatforms == 3

\* A platform's entry as another release left it.
OtherDetail(key) ==
    [signature |-> [kind |-> "sig", os |-> "macos", version |-> <<"0", ".", "9", ".", "0">>],
     url |-> [release |-> 0, name |-> <<productName, key, "msi.zip">>]]

\* The manifest documents: every mapping of at most MaxPlatforms platform
\* keys to one of two entries.
ManifestDocs ==
    {[version |-> <<"1", ".", "0", ".", "0">>, notes |-> [text |-> "x", newline |-> FALSE],
      pub_date |-> 0, platforms |-> m] :
        m \in UNION {[keys -> {"old", "other"}] :
                        keys \in {K \in SUBSET PlatformKeys : Cardinality(K) <= MaxPlatforms}}}

DocOf(d) ==
    [d EXCEPT !.platforms = [k \in DOMAIN d.platforms |->
                                IF d.platforms[k] = "old" THEN OldDetail(k) ELSE OtherDetail(k)]]

\* The file as the gist holds it: missing content, content that is not a
\* manifest, a manifest, or a manifest with a field GistContent lacks.
ManifestFiles ==
    {FileWithoutContent, GistFile([version |-> <<"1", ".", "0", ".", "0">>])}
    \cup {GistFile(GistContent_to_string(DocOf(d))) : d \in ManifestDocs}
    \cup {GistFile(JsonInsert(GistContent_to_string(DocOf(d)), "comment", "kept by hand")) :
             d \in ManifestDocs}

SupportedMachines == {m \in Machines : platform_key_of(m[1], m[2]) # ""}

InitGist ==
    /\ \E machine \in SupportedMachines :
          /\ operating_system = machine[1]
          /\ architecture = machine[2]
          /\ platform_key = platform_key_of(machine[1], machine[2])
          /\ releases = <<[name |-> <<"1", ".", "0", ".", "1">>,
                           assets |-> {file_name(new_filepath(machine[1], platform_key))}]>>
          /\ release_asset_url =
                 [release |-> 1, name |-> file_name(new_filepath(machine[1], platform_key))]
          /\ fs_files = new_filepath(machine[1], platform_key)
                            :> [kind |-> "bundle", os |-> machine[1],
                                version |-> <<"1", ".", "0", ".", "1">>]
                        @@ sig_file_path
                            :> [kind |-> "sig", os |-> "macos",
                                version |-> <<"1", ".", "0", ".", "1">>]
          /\ \E files \in {<<>>} \cup {gist_filename(github_repo, platform_key) :> f :
                                          f \in ManifestFiles} :
                 gists = "g0" :> files
    /\ tauri_conf = TauriConf(<<"1", ".", "0", ".", "1">>)
    /\ javelin_conf = JavelinConf("g0")
    /\ runs = 1
    /\ peer = NoPeer
    /\ pc = "gist_fetch"
    /\ current_version = <<"1", ".", "0", ".", "0">>
    /\ update_type = "Patch"
    /\ update_notes_str = NotesLine
    /\ new_version = <<"1", ".", "0", ".", "1">>
    /\ sig_content = [kind |-> "sig", os |-> "macos", version |-> <<"1", ".", "0", ".", "1">>]
    /\ release = [name |-> <<"1", ".", "0", ".", "1">>, upload_url |-> 1]
    /\ github_gist = "g0"
    /\ existing_content = NoDoc
    /\ calls = <<Call("get_latest_release", "bearer", "reqwest", NoVersion),
                 Call("create_release", "bearer", "tauri_javelin", <<"1", ".", "0", ".", "1">>),
                 Call("upload_asset", "token", "", <<"1", ".", "0", ".", "1">>)>>
    /\ writes = <<tauri_config_path>>
    /\ exit_code = -1
    /\ error = ""
    /\ latest_response = [status |-> 404, decodable |-> FALSE, name |-> NoVersion,
                          upload_url |-> 0]

NextGist == GistFetch \/ GistPatch

SpecGist == InitGist /\ [][NextGist]_vars

(***************************************************************************)
(* Specification of read_and_update_version alone, over many version       *)
(* strings                                                                 *)
(***************************************************************************)

\* How many dot-separated segments a version string holds, at most.
MaxSegments == 4

\* The segments version strings are built from: "", "9", "+1", "x",
\* "4294967295" (u32::MAX) and "4294967296".
SegmentInputs ==
    {<<>>, <<"9">>, <<"+", "1">>, <<"x">>,
     <<"4", "2", "9", "4", "9", "6", "7", "2", "9", "5">>,
     <<"4", "2", "9", "4", "9", "6", "7", "2", "9", "6">>}

RECURSIVE VersionStrings(_)
VersionStrings(n) ==
    IF n = 1 THEN SegmentInputs
    ELSE {v \o <<".">> \o seg : v \in VersionStrings(n - 1), seg \in SegmentInputs}

VersionInputs == UNION {VersionStrings(n) : n \in 1..MaxSegments}

InitBump ==
    /\ \E v \in VersionInputs :
          /\ tauri_conf = TauriConf(v)
          /\ current_version = v
    /\ update_type \in UpdateTypes
    /\ javelin_conf = JavelinConf("")
    /\ fs_files = <<>>
    /\ releases = <<>>
    /\ gists = <<>>
    /\ runs = 1
    /\ peer = NoPeer
    /\ pc = "read_and_update_version"
    /\ operating_system = "macos"
    /\ architecture = "aarch64"
    /\ platform_key = "darwin-aarch64"
    /\ update_notes_str = NotesLine
    /\ new_version = NoVersion
    /\ sig_content = NoContent
    /\ release = NoRelease
    /\ release_asset_url = NoAsset
    /\ github_gist = ""
    /\ existing_content = NoDoc
    /\ calls = <<>>
    /\ writes = <<>>
    /\ exit_code = -1
    /\ error = ""
    /\ latest_response = NoResponse

NextBump == ReadAndUpdateVersion

SpecBump == InitBump /\ [][NextBump]_vars

(***************************************************************************)
(* Claims about the workflow (checked under Spec)                          *)
(***************************************************************************)

\* package.version of the application manifest file, as it stands now.
PersistedVersion == tauri_conf.package.version

RemoteFailures == {"get_latest_release", "create_release", "upload_asset",
                   "get_gist", "patch_gist", "create_gist"}

\* C1: build-failure rollback.  When the build exits non-zero after the bump
\* was persisted, the process ends with package.version equal to the
\* version the file held when the run started.
C1_BuildFailureRollback ==
    (pc = "exited" /\ error = "build_failed") => PersistedVersion = current_version

\* C2: remote-failure rollback.  When a remote step fails (latest-release
\* lookup, release creation, asset upload, manifest fetch, PATCH or creation),
\* the process ends with package.version equal to the pre-run version.
C2_RemoteFailureRollback ==
    (pc = "exited" /\ error \in RemoteFailures) => PersistedVersion = current_version

\* C3: artifact-missing rollback.  When the build reports success but the
\* build output or the signature file is missing, the run is fatal and
\* package.version is back at its pre-run value when the process ends.
C3_ArtifactMissingRollback ==
    (pc = "exited" /\ error \in {"signature_missing", "bundle_missing"})
        => (exit_code # 0 /\ PersistedVersion = current_version)


\* The create-release calls this run has issued.
CreateCalls == {i \in 1..Len(calls) : calls[i].op = "create_release"}
LookupCalls == {i \in 1..Len(calls) : calls[i].op = "get_latest_release"}

\* get_latest_release has returned: main is past it, or ended on its error.
EnsureReleaseReturned ==
    /\ Len(calls) > 0
    /\ pc \notin {"get_latest_release", "create_release"}

\* The lookup was answered 200 with a release of this name / another name.
LatestNamed(version) ==
    latest_response.status = 200 /\ latest_response.decodable
    /\ latest_response.name = version
LatestNamedOtherwise(version) ==
    latest_response.status = 200 /\ latest_response.decodable
    /\ latest_response.name # version

\* C5: release selection.  When the latest release's name equals the target
\* version, that release is reused and no create-release call is issued;
\* when the name differs, the lookup answers 404, or the lookup request
\* fails, exactly one create-release call is issued.
C5_ReleaseSelection ==
    /\ Cardinality(CreateCalls) <= 1
    /\ (EnsureReleaseReturned /\ LatestNamed(new_version))
           => /\ CreateCalls = {}
              /\ release = [name |-> latest_response.name,
                            upload_url |-> latest_response.upload_url]
    /\ (EnsureReleaseReturned
        /\ (LatestNamedOtherwise(new_version) \/ latest_response.status \in {0, 404}))
           => Cardinality(CreateCalls) = 1

\* C5 witness: a run has reused the latest release and is about to upload.
C5_Witness ==
    /\ pc = "upload"
    /\ LatestNamed(new_version)
    /\ CreateCalls = {}
    /\ release.upload_url = Len(releases)

\* C6: when the lookup answers a status other than 200 and 404,
\* get_latest_release returns an error, and no create-release call and no
\* further lookup is issued.
C6_OtherStatusIsFatal ==
    (EnsureReleaseReturned /\ latest_response.status \notin {0, 200, 404})
        => /\ pc = "exited" /\ exit_code = 1 /\ error = "get_latest_release"
           /\ CreateCalls = {}
           /\ Cardinality(LookupCalls) = 1
           /\ release = NoRelease

\* C6 witness: a run ended on a lookup answered 500.
C6_Witness ==
    /\ pc = "exited"
    /\ error = "get_latest_release"
    /\ latest_response.status = 500
    /\ CreateCalls = {}

\* This step issues a create-release call.
CreateCallIssued == pc = "create_release" /\ Len(calls') = Len(calls) + 1

\* C7 as claimed: over any sequence of runs, a create-release call is never
\* issued for a version for which a release of that name already exists.
C7_NoCreateForExistingRelease ==
    [][CreateCallIssued => new_version \notin ReleaseNames]_vars

\* C7 as amended: a create-release call is issued for a version that already
\* has a release only when the lookup failed in transport or the latest
\* release carries another name; when the lookup answers 200 with the latest
\* release named as the target, no create call is issued.
C7_CreateForExistingOnlyAfterFailedLookup ==
    [][(CreateCallIssued /\ new_version \in ReleaseNames)
           => (latest_response.status = 0 \/ LatestNamedOtherwise(new_version))]_vars

\* C7 witness: a rerun targets the version of the release an earlier run
\* created, and reuses that release.
C7_Witness ==
    /\ runs = 2
    /\ update_type = "Current"
    /\ pc = "exited" /\ exit_code = 0
    /\ Len(releases) = 1
    /\ releases[1].name = new_version
    /\ release.upload_url = 1
    /\ CreateCalls = {}


(***************************************************************************)
(* Claims about fetch_and_update_gist (checked under SpecGist)             *)
(***************************************************************************)

\* The manifest file of the run's platform, as the gist holds it.
RemoteManifest == gists[github_gist][gist_filename(github_repo, platform_key)].content

\* C4: scoped manifest upsert.  A successful fetch_and_update for key k
\* writes back a document whose platform mapping is the one the gist held
\* with only k's entry inserted or replaced, and whose version, notes and
\* pub_date are the new values passed in.
C4_ScopedManifestUpsert ==
    [][(pc = "gist_patch" /\ pc' = "exited" /\ exit_code' = 0)
          => LET before == RemoteManifest
                 after == RemoteManifest'
             IN  /\ DOMAIN after.platforms = (DOMAIN before.platforms) \cup {platform_key}
                 /\ \A k \in (DOMAIN before.platforms) \ {platform_key} :
                        after.platforms[k] = before.platforms[k]
                 /\ after.platforms[platform_key] = new_platform_detail
                 /\ after.version = new_version
                 /\ after.notes = update_notes_str
                 /\ after.pub_date = current_time]_vars

\* C4 witness: a manifest that held other platforms' entries has been
\* updated, and holds them beside the run's own.
C4_Witness ==
    /\ pc = "exited" /\ exit_code = 0
    /\ calls[Len(calls)].op = "patch_gist"
    /\ Cardinality(DOMAIN RemoteManifest.platforms) >= 3
    /\ RemoteManifest.platforms[platform_key] = new_platform_detail
    /\ \E k \in DOMAIN RemoteManifest.platforms : RemoteManifest.platforms[k] = OtherDetail(k)


(***************************************************************************)
(* Claims about the version (C8 and C10 under SpecBump, C9 under Spec).    *)
(* Versions are read here as decimal strings, without the program's        *)
(* parsing: the segments are the pieces between the dots, a segment is     *)
(* numeric when it is decimal digits after an optional plus sign, and its  *)
(* number is written canonically without the sign and leading zeros.       *)
(***************************************************************************)

\* The places of the dots, with the two ends of the string.
Cuts(s) == {0, Len(s) + 1} \cup {i \in 1..Len(s) : s[i] = "."}

\* The segments of s, as pairs of neighbouring cuts.
SegmentBounds(s) ==
    {c \in Cuts(s) \X Cuts(s) :
        c[1] < c[2] /\ \A k \in Cuts(s) : ~(c[1] < k /\ k < c[2])}

Segment(s, c) == SubSeq(s, c[1] + 1, c[2] - 1)

AllDigits(seg) == seg # <<>> /\ \A i \in 1..Len(seg) : seg[i] \in DigitChars

Numeric(seg) ==
    \/ AllDigits(seg)
    \/ (seg # <<>> /\ seg[1] = "+" /\ AllDigits(Tail(seg)))

\* The digits of a numeric segment without sign and leading zeros.
RECURSIVE StripZeros(_)
StripZeros(ds) == IF Len(ds) > 1 /\ ds[1] = "0" THEN StripZeros(Tail(ds)) ELSE ds

Canonical(seg) == StripZeros(IF seg[1] = "+" THEN Tail(seg) ELSE seg)

\* The decimal string of n + 1, n given by its canonical digits.
RECURSIVE DecimalSucc(_)
DecimalSucc(ds) ==
    IF ds = <<>> THEN <<"1">>
    ELSE IF ds[Len(ds)] = "9"
         THEN Append(DecimalSucc(SubSeq(ds, 1, Len(ds) - 1)), "0")
         ELSE Append(SubSeq(ds, 1, Len(ds) - 1), DigitChar(DigitVal(ds[Len(ds)]) + 1))

\* a <= b, for canonical digit strings.
DecimalLeq(a, b) ==
    \/ Len(a) < Len(b)
    \/ /\ Len(a) = Len(b)
       /\ \/ a = b
          \/ \E i \in 1..Len(a) :
                /\ \A j \in 1..(i - 1) : a[j] = b[j]
                /\ DigitVal(a[i]) < DigitVal(b[i])

U32MaxDecimal == <<"4", "2", "9", "4", "9", "6", "7", "2", "9", "5">>

\* The n-th segment of a string of three segments.
NthSegment(s, n) ==
    LET c == CHOOSE c \in SegmentBounds(s) :
                 Cardinality({k \in Cuts(s) : k <= c[1]}) = n
    IN  Segment(s, c)

\* A valid three-segment version: three numeric segments, each a u32.
ValidVersion(s) ==
    /\ Cardinality(SegmentBounds(s)) = 3
    /\ \A c \in SegmentBounds(s) :
          /\ Numeric(Segment(s, c))
          /\ DecimalLeq(Canonical(Segment(s, c)), U32MaxDecimal)

JoinVersion(a, b, c) == a \o <<".">> \o b \o <<".">> \o c

\* bump(v, kind) as the spec gives it, on the decimal strings.
Bumped(s, type) ==
    LET a == Canonical(NthSegment(s, 1))
        b == Canonical(NthSegment(s, 2))
        c == Canonical(NthSegment(s, 3))
    IN  CASE type = "Major" -> JoinVersion(DecimalSucc(a), <<"0">>, <<"0">>)
          [] type = "Minor" -> JoinVersion(a, DecimalSucc(b), <<"0">>)
          [] type = "Patch" -> JoinVersion(a, b, DecimalSucc(c))
          [] type = "Current" -> JoinVersion(a, b, c)

\* read_and_update_version has been called and has returned, or panicked.
BumpDone == pc # "start" /\ pc # "prompt" /\ pc # "read_and_update_version"

\* C8: for every valid three-segment version (a, b, c), bump with Major
\* returns (a+1, 0, 0), with Minor (a, b+1, 0), and with Patch (a, b, c+1).
C8_BumpIncrements ==
    (BumpDone /\ ValidVersion(current_version) /\ update_type \in {"Major", "Minor", "Patch"})
        => new_version = Bumped(current_version, update_type)

\* C9 as claimed: bump(v, Current) = v for every valid three-segment
\* version v, and a run with kind Current leaves package.version equal to
\* its pre-run value.
C9_CurrentIsIdentity ==
    (BumpDone /\ ValidVersion(current_version) /\ update_type = "Current")
        => (new_version = current_version /\ PersistedVersion = current_version)

\* Every segment of s is written without plus sign and leading zeros.
CanonicalVersion(s) ==
    \A c \in SegmentBounds(s) : Canonical(Segment(s, c)) = Segment(s, c)

\* C9 as amended: bump(v, Current) is v with every segment written
\* canonically (without plus sign and leading zeros), so it is v exactly when
\* v is written so, and then a run with kind Current leaves package.version
\* equal to its pre-run value; for any valid v, the file holds bump(v,
\* Current) once the bump is persisted and when the run completes.
C9_CurrentIsCanonicalIdentity ==
    (BumpDone /\ ValidVersion(current_version) /\ update_type = "Current")
        => /\ new_version = Bumped(current_version, "Current")
           /\ CanonicalVersion(current_version)
                  => (new_version = current_version /\ PersistedVersion = current_version)
           /\ (pc = "secret_key" \/ (pc = "exited" /\ exit_code = 0))
                  => PersistedVersion = new_version

\* C9 witness: a run with kind Current has completed with the version the
\* file held before it.
C9_Witness ==
    /\ pc = "exited" /\ exit_code = 0
    /\ update_type = "Current"
    /\ new_version = current_version
    /\ PersistedVersion = current_version
    /\ writes # <<>>

\* C10: bump fails for every input that does not have exactly three
\* dot-separated segments or has a non-numeric segment, and then
\* read_and_update_version does not write the version file.
C10_BumpRejectsMalformed ==
    (BumpDone /\ (\/ Cardinality(SegmentBounds(current_version)) # 3
                  \/ \E c \in SegmentBounds(current_version) :
                        ~Numeric(Segment(current_version, c))))
        => /\ pc = "exited" /\ exit_code = 1 /\ error = "update_version"
           /\ new_version = NoVersion
           /\ writes = <<>>
           /\ tauri_conf = TauriConf(current_version)

\* C10 witness: a version of two segments has been rejected, the file
\* unwritten.
C10_Witness ==
    /\ pc = "exited" /\ error = "update_version"
    /\ Cardinality(SegmentBounds(current_version)) = 2
    /\ \A c \in SegmentBounds(current_version) : AllDigits(Segment(current_version, c))
    /\ writes = <<>>


(***************************************************************************)
(* Claims about the run as a whole (checked under Spec)                    *)
(***************************************************************************)

\* The manifest file of the run's platform in the gist the tool's config
\* names.
ConfiguredManifest ==
    gists[javelin_conf.gist_id][gist_filename(github_repo, platform_key)].content

\* C11: the bumped version is persisted before the build starts.  When the
\* build command is invoked package.version already is the bumped version,
\* and every remote call of the run that carries a version (release
\* creation, the release uploaded to, the manifest written) carries that
\* same version.
C11_BumpPersistedBeforeBuild ==
    /\ pc = "build" => (PersistedVersion = new_version /\ tauri_config_path \in
                            {writes[i] : i \in 1..Len(writes)})
    /\ \A i \in 1..Len(calls) :
           calls[i].op \in {"create_release", "upload_asset"} => calls[i].name = new_version
    /\ (pc = "exited" /\ exit_code = 0 /\ new_version # NoVersion)
           => ConfiguredManifest.version = new_version

\* C11 witness: a run that bumped the version has created a release of the
\* bumped version and has completed, the file holding that version.
C11_Witness ==
    /\ pc = "exited" /\ exit_code = 0
    /\ new_version # NoVersion /\ new_version # current_version
    /\ PersistedVersion = new_version
    /\ \E i \in 1..Len(calls) :
           calls[i].op = "create_release" /\ calls[i].name = new_version
    /\ ConfiguredManifest.version = new_version

\* C12: exit status.  A run ends with status 0 exactly when it completed
\* normally, and with status 1 on every fatal error: invalid operator input,
\* build failure, missing artifact or signature, a failed remote call, an
\* unsupported platform.  (The operator quitting at the prompt is no error.)
C12_ExitStatus ==
    pc = "exited"
        => /\ exit_code = 0 <=> error = ""
           /\ error \notin {"", "quit"} => exit_code = 1

\* The remote operations, and the calls of one of them the run has issued.
RemoteOperations == {"get_latest_release", "create_release", "upload_asset",
                     "get_gist", "patch_gist", "create_gist"}

CallsOf(op) == {i \in 1..Len(calls) : calls[i].op = op}

EachOperationAtMostOnce == \A op \in RemoteOperations : Cardinality(CallsOf(op)) <= 1

\* This step issues a remote call.
CallIssued == Len(calls') > Len(calls)

\* The latest-release request got no answer.
LookupFailedInTransport == latest_response.status = 0

\* A remote operation of this run has failed otherwise: the lookup was
\* answered with a status other than 200 and 404 or with a body that is no
\* release, or the run ended on the error of a remote call.
RemoteOperationFailed ==
    \/ latest_response.status \notin {-1, 0, 200, 404}
    \/ latest_response.status = 200 /\ ~latest_response.decodable
    \/ /\ pc = "exited"
       /\ error \in RemoteFailures \cup {"gist_file_not_found", "gist_file_without_content",
                                          "gist_content_undecodable", "gist_created_without_id"}

\* C13 as claimed: no retry.  Within one run each remote operation is issued
\* at most once, and after any remote operation fails no further remote
\* operation is issued in that run.
C13_NoRetry ==
    [][/\ EachOperationAtMostOnce'
       /\ (RemoteOperationFailed \/ LookupFailedInTransport) => ~CallIssued]_vars

\* C13 as amended: each remote operation is issued at most once in a run,
\* and after a remote operation fails no further remote operation is issued,
\* with one exception: when the latest-release request fails in transport,
\* the next call is the one create-release call, and the run goes on from it
\* as after a 404.
C13_NoRetryButCreateAfterFailedLookup ==
    [][/\ EachOperationAtMostOnce'
       /\ RemoteOperationFailed => ~CallIssued
       /\ (LookupFailedInTransport /\ calls[Len(calls)].op = "get_latest_release"
           /\ CallIssued)
              => calls'[Len(calls')].op = "create_release"]_vars

\* C13 witness: a run whose lookup failed in transport has issued its one
\* create-release call, and has ended on the failure of the upload.
C13_Witness ==
    /\ pc = "exited" /\ error = "upload_asset"
    /\ LookupFailedInTransport
    /\ Cardinality(CallsOf("create_release")) = 1
    /\ Len(calls) = 3


(***************************************************************************)
(* Specification of the start of a run, over many machines                 *)
(***************************************************************************)

\* Values of env::consts::OS and env::consts::ARCH.
OperatingSystems == {"macos", "linux", "windows", "freebsd"}
Architectures == {"x86", "x86_64", "arm", "aarch64"}

InitPlatform ==
    /\ \E v \in WorkflowVersions, g \in InitialGists :
          /\ tauri_conf = [TauriConf(v) EXCEPT
                               !.tauri.updater.endpoints = InitialEndpoints(g.gist_id)]
          /\ javelin_conf = JavelinConf(g.gist_id)
          /\ gists = g.gists
    /\ fs_files = <<>>
    /\ releases = <<>>
    /\ runs = 1
    /\ peer = NoPeer
    /\ pc = "start"
    /\ operating_system \in OperatingSystems
    /\ architecture \in Architectures
    /\ platform_key = ""
    /\ current_version = NoVersion
    /\ update_type = ""
    /\ update_notes_str = NoNotes
    /\ new_version = NoVersion
    /\ sig_content = NoContent
    /\ release = NoRelease
    /\ release_asset_url = NoAsset
    /\ github_gist = ""
    /\ existing_content = NoDoc
    /\ calls = <<>>
    /\ writes = <<>>
    /\ exit_code = -1
    /\ error = ""
    /\ latest_response = NoResponse

NextPlatform == Startup \/ Prompt

SpecPlatform == InitPlatform /\ [][NextPlatform]_vars

(***************************************************************************)
(* Claims about the platform key (checked under SpecPlatform)              *)
(***************************************************************************)

\* The enumerated set: the (OS, architecture) pair of each platform key.
EnumeratedPlatforms ==
    <<"macos", "aarch64">> :> "darwin-aarch64" @@ <<"macos", "x86_64">> :> "darwin-x86_64"
    @@ <<"linux", "x86_64">> :> "linux-x86_64" @@ <<"windows", "x86_64">> :> "windows-x86_64"

\* C14: unsupported platform.  A platform key is assigned only for the (OS,
\* architecture) pairs of the enumerated set; for every other pair the run
\* ends fatally with no fallback key, before the version is bumped and
\* before any remote call.
C14_UnsupportedPlatform ==
    pc # "start"
        => LET machine == <<operating_system, architecture>>
           IN  IF machine \in DOMAIN EnumeratedPlatforms
               THEN platform_key = EnumeratedPlatforms[machine]
               ELSE /\ platform_key = ""
                    /\ pc = "exited" /\ exit_code \notin {-1, 0}
                    /\ new_version = NoVersion /\ writes = <<>> /\ calls = <<>>


(***************************************************************************)
(* Claims about the creation of the manifest (checked under Spec)          *)
(***************************************************************************)

\* The gists the runs have created ("g0" was there before the first run).
CreatedGists == (DOMAIN gists) \ {"g0"}

Endpoints == tauri_conf.tauri.updater.endpoints

\* This step is a create-manifest call that creates the gist.
GistCreated == pc = "gist_create" /\ DOMAIN gists' # DOMAIN gists

\* The identifier of the gist this step creates.
CreatedId == CHOOSE g \in (DOMAIN gists') \ (DOMAIN gists) : TRUE

\* C15 as claimed: manifest created once.  A create-manifest call is issued
\* only by a run whose configured Gist identifier is empty; a run whose
\* create call succeeded has stored the identifier in the local config; over
\* any sequence of runs at most one manifest is created.
C15_ManifestCreatedOnce ==
    /\ CallsOf("create_gist") # {} => github_gist = ""
    /\ (pc = "exited" /\ exit_code = 0 /\ CallsOf("create_gist") # {})
           => javelin_conf.gist_id \in CreatedGists
    /\ Cardinality(CreatedGists) <= 1

\* C15 as amended: a create-manifest call is issued only by a run whose
\* configured Gist identifier is empty; when the call returns an identifier
\* the run stores it in the local config, and from then on the identifier
\* stays, no manifest is created, and a run that updates the manifest
\* changes that gist only.  A create call whose answer carries no identifier
\* leaves the config without one (so a later run creates another manifest).
C15_ManifestCreatedOncePerStoredIdentifier ==
    [][/\ (CallIssued /\ calls'[Len(calls')].op = "create_gist")
              => (github_gist = "" /\ javelin_conf.gist_id = "")
       /\ (GistCreated /\ exit_code' = 0) => javelin_conf'.gist_id = CreatedId
       /\ (GistCreated /\ exit_code' # 0) => javelin_conf'.gist_id = ""
       /\ javelin_conf.gist_id # ""
              => /\ javelin_conf'.gist_id = javelin_conf.gist_id
                 /\ DOMAIN gists' = DOMAIN gists
                 /\ \A g \in (DOMAIN gists) \ {javelin_conf.gist_id} : gists'[g] = gists[g]]_vars

\* C15 witness: the second run has updated the manifest the first run
\* created, the only one there is.
C15_Witness ==
    /\ runs = 2
    /\ pc = "exited" /\ exit_code = 0
    /\ CallsOf("patch_gist") # {}
    /\ CreatedGists = {javelin_conf.gist_id}
    /\ ConfiguredManifest.pub_date = 2

\* C16: after a successful manifest create that returned identifier id for
\* owner o, the updater endpoint list of the application config is exactly
\* [https://gist.github.com/o/id/raw], and id is the value the caller gets
\* (main stores it as gist_id).
C16_EndpointAfterCreate ==
    [][(GistCreated /\ exit_code' = 0)
          => /\ tauri_conf'.tauri.updater.endpoints =
                    <<<<"https://gist.github.com/", javelin_conf.github_username, "/",
                        CreatedId, "/raw">>>>
             /\ javelin_conf'.gist_id = CreatedId]_vars

\* C16 witness: a run has created the manifest, and the endpoint list that
\* held two addresses holds the one of the new gist.
C16_Witness ==
    /\ pc = "exited" /\ exit_code = 0
    /\ CallsOf("create_gist") # {}
    /\ javelin_conf.gist_id \in CreatedGists
    /\ Len(Endpoints) = 1
    /\ Endpoints[1][4] = javelin_conf.gist_id

\* C17: created but unidentified.  When the create-manifest call succeeds
\* remotely but the run gets no identifier from its answer, create returns
\* an error (the run ends with status 1), the updater endpoint list and the
\* Gist identifier of the local config are unchanged, and the run has issued
\* the one create call.
C17_CreatedButUnidentified ==
    [][(GistCreated /\ javelin_conf'.gist_id # CreatedId)
          => /\ pc' = "exited" /\ exit_code' = 1 /\ error' = "gist_created_without_id"
             /\ tauri_conf'.tauri.updater.endpoints = Endpoints
             /\ tauri_conf' = tauri_conf
             /\ javelin_conf'.gist_id = javelin_conf.gist_id
             /\ Cardinality({i \in 1..Len(calls') : calls'[i].op = "create_gist"}) = 1]_vars

\* C17 witness: a run has ended on a gist created without identifier, the
\* config still without gist and with its two old endpoints.
C17_Witness ==
    /\ pc = "exited" /\ exit_code = 1 /\ error = "gist_created_without_id"
    /\ Cardinality(CreatedGists) = 1
    /\ javelin_conf.gist_id = ""
    /\ Len(Endpoints) = 2
    /\ Cardinality(CallsOf("create_gist")) = 1

(***************************************************************************)
(* Claims about the fetch of the manifest (checked under SpecGist)         *)
(***************************************************************************)

\* The gist that was fetched has no file of the manifest's name, or the file
\* has no content.
ManifestFileMissing ==
    LET filename == gist_filename(github_repo, platform_key)
    IN  \/ filename \notin DOMAIN gists[github_gist]
        \/ ~gists[github_gist][filename].has_content

\* C18: fetch_and_update fails with a not-found error and issues no PATCH,
\* the remote manifest unchanged, when the fetched gist has no file named
\* {repo}-javelin-{platform_key}-manifest.json or the file has no content.
C18_FetchNotFound ==
    [][(pc = "gist_fetch" /\ error' # "get_gist" /\ ManifestFileMissing)
          => /\ pc' = "exited" /\ exit_code' = 1
             /\ error' \in {"gist_file_not_found", "gist_file_without_content"}
             /\ gists' = gists
             /\ \A i \in 1..Len(calls') : calls'[i].op # "patch_gist"]_vars

\* C18 witness: a run has ended on a gist without the manifest file, with
\* no PATCH issued.
C18_Witness ==
    /\ pc = "exited" /\ error = "gist_file_not_found"
    /\ gist_filename(github_repo, platform_key) \notin DOMAIN gists[github_gist]
    /\ calls[Len(calls)].op = "get_gist"


(***************************************************************************)
(* Specification of two runs updating the same manifest file at the same   *)
(* time: both have uploaded their asset and are about to fetch the gist    *)
(***************************************************************************)

\* The run-local state of the run that is looked at.
RunContext ==
    [pc |-> pc, operating_system |-> operating_system, architecture |-> architecture,
     platform_key |-> platform_key, current_version |-> current_version,
     update_type |-> update_type, update_notes_str |-> update_notes_str,
     new_version |-> new_version, sig_content |-> sig_content, release |-> release,
     release_asset_url |-> release_asset_url, github_gist |-> github_gist,
     existing_content |-> existing_content, calls |-> calls, writes |-> writes,
     exit_code |-> exit_code, error |-> error, latest_response |-> latest_response]

\* The two processes are scheduled at will: the other run becomes the one
\* looked at.  Each await of fetch_and_update_gist is a place where the other
\* run's requests can reach GitHub first.
Switch ==
    /\ peer.pc # "none"
    /\ peer' = RunContext
    /\ pc' = peer.pc
    /\ operating_system' = peer.operating_system
    /\ architecture' = peer.architecture
    /\ platform_key' = peer.platform_key
    /\ current_version' = peer.current_version
    /\ update_type' = peer.update_type
    /\ update_notes_str' = peer.update_notes_str
    /\ new_version' = peer.new_version
    /\ sig_content' = peer.sig_content
    /\ release' = peer.release
    /\ release_asset_url' = peer.release_asset_url
    /\ github_gist' = peer.github_gist
    /\ existing_content' = peer.existing_content
    /\ calls' = peer.calls
    /\ writes' = peer.writes
    /\ exit_code' = peer.exit_code
    /\ error' = peer.error
    /\ latest_response' = peer.latest_response
    /\ UNCHANGED <<local_vars, remote_vars, runs>>

\* The first run bumped 1.0.0 to 1.0.1; the second was started after that
\* bump, on the same machine and files, and bumped 1.0.1 to 1.0.2.
InitRace ==
    LET V1 == <<"1", ".", "0", ".", "1">>
        V2 == <<"1", ".", "0", ".", "2">>
    IN
    /\ \E machine \in SupportedMachines :
          LET key == platform_key_of(machine[1], machine[2])
              asset == file_name(new_filepath(machine[1], key))
              uploaded(v, n) == <<Call("get_latest_release", "bearer", "reqwest", NoVersion),
                                  Call("create_release", "bearer", "tauri_javelin", v),
                                  Call("upload_asset", "token", "", v)>>
          IN  /\ operating_system = machine[1]
              /\ architecture = machine[2]
              /\ platform_key = key
              /\ releases = <<[name |-> V1, assets |-> {asset}],
                              [name |-> V2, assets |-> {asset}]>>
              /\ release_asset_url = [release |-> 1, name |-> asset]
              /\ calls = uploaded(V1, 1)
              /\ fs_files = new_filepath(machine[1], key)
                                :> [kind |-> "bundle", os |-> machine[1], version |-> V2]
                            @@ sig_file_path
                                :> [kind |-> "sig", os |-> "macos", version |-> V2]
              /\ \E files \in {<<>>} \cup {gist_filename(github_repo, key) :> f :
                                              f \in ManifestFiles} :
                     gists = "g0" :> files
              /\ peer = [pc |-> "gist_fetch", operating_system |-> machine[1],
                         architecture |-> machine[2], platform_key |-> key,
                         current_version |-> V1, update_type |-> "Patch",
                         update_notes_str |-> [text |-> "more notes", newline |-> TRUE],
                         new_version |-> V2,
                         sig_content |-> [kind |-> "sig", os |-> "macos", version |-> V2],
                         release |-> [name |-> V2, upload_url |-> 2],
                         release_asset_url |-> [release |-> 2, name |-> asset],
                         github_gist |-> "g0", existing_content |-> NoDoc,
                         calls |-> uploaded(V2, 2), writes |-> <<tauri_config_path>>,
                         exit_code |-> -1, error |-> "",
                         latest_response |-> [status |-> 200, decodable |-> TRUE,
                                              name |-> V1, upload_url |-> 1]]
    /\ tauri_conf = [TauriConf(V2) EXCEPT !.tauri.updater.endpoints = InitialEndpoints("g0")]
    /\ javelin_conf = JavelinConf("g0")
    /\ runs = 2
    /\ pc = "gist_fetch"
    /\ current_version = <<"1", ".", "0", ".", "0">>
    /\ update_type = "Patch"
    /\ update_notes_str = NotesLine
    /\ new_version = V1
    /\ sig_content = [kind |-> "sig", os |-> "macos", version |-> V1]
    /\ release = [name |-> V1, upload_url |-> 1]
    /\ github_gist = "g0"
    /\ existing_content = NoDoc
    /\ writes = <<tauri_config_path>>
    /\ exit_code = -1
    /\ error = ""
    /\ latest_response = [status |-> 404, decodable |-> FALSE, name |-> NoVersion,
                          upload_url |-> 0]

NextRace == GistFetch \/ GistPatch \/ Switch

SpecRace == InitRace /\ [][NextRace]_vars

(***************************************************************************)
(* Claims about concurrent updates (checked under SpecRace)                *)
(***************************************************************************)

\* The document the run that is looked at sends with its PATCH: what it
\* fetched, with its version, notes and time and its platform's entry.
SentDocument ==
    [version |-> new_version, notes |-> update_notes_str, pub_date |-> current_time,
     platforms |-> [k \in (DOMAIN existing_content.platforms) \cup {platform_key} |->
                       IF k = platform_key
                       THEN [signature |-> sig_content, url |-> release_asset_url]
                       ELSE existing_content.platforms[k]]]

\* The other run has PATCHed, and both runs had fetched the same document:
\* both fetched before either PATCHed.
PeerPatchedFirst ==
    /\ peer.pc = "exited" /\ peer.exit_code = 0
    /\ peer.existing_content = existing_content

\* C19: concurrent manifest updates are last-PATCH-wins.  When two runs
\* targeting the same manifest file both fetch before either PATCHes, the
\* later PATCH is accepted like the earlier one (no conflict is detected), the
\* remote document then is the document the later PATCH sent, and nothing
\* the earlier PATCH wrote is left in it.
C19_LastPatchWins ==
    [][(pc = "gist_patch" /\ pc' = "exited" /\ exit_code' = 0 /\ peer' = peer)
          => /\ RemoteManifest' = SentDocument
             /\ PeerPatchedFirst
                   => /\ RemoteManifest.version = peer.new_version
                      /\ RemoteManifest'.version # peer.new_version
                      /\ RemoteManifest'.notes # peer.update_notes_str
                      /\ RemoteManifest'.platforms[platform_key].signature # peer.sig_content
                      /\ RemoteManifest'.platforms[platform_key].url # peer.release_asset_url]_vars

\* C19 witness: both runs fetched the same manifest, holding other
\* platforms' entries, both PATCHes were accepted, and the remote document
\* is the one of the run that PATCHed last.
C19_Witness ==
    /\ pc = "exited" /\ exit_code = 0
    /\ PeerPatchedFirst
    /\ RemoteManifest = SentDocument
    /\ RemoteManifest.version # peer.new_version
    /\ Cardinality(DOMAIN existing_content.platforms) >= 2


(***************************************************************************)
(* Claims about the order of the steps (checked under Spec)                *)
(***************************************************************************)

\* The step a place of main belongs to: when main gets there the first of
\* the two starts, and main leaves it with the second done.  Locating and
\* renaming the artifact are one place of main.
StepAt(p) ==
    CASE p \in {"start", "prompt"} -> <<"Init", "Init">>
      [] p = "read_and_update_version" -> <<"VersionBump", "VersionBump">>
      [] p \in {"secret_key", "build"} -> <<"Build", "Build">>
      [] p = "read_sig" -> <<"ReadSignature", "ReadSignature">>
      [] p = "rename" -> <<"LocateArtifact", "RenameArtifact">>
      [] p \in {"get_latest_release", "create_release"} -> <<"EnsureRelease", "EnsureRelease">>
      [] p = "upload" -> <<"UploadAsset", "UploadAsset">>
      [] p \in {"gist_fetch", "gist_patch", "gist_create"}
             -> <<"UpdateOrCreateManifest", "UpdateOrCreateManifest">>
      [] p = "exited" -> <<"Done", "Done">>

PositionIn(order, step) == CHOOSE i \in 1..Len(order) : order[i] = step

\* A step of a run that does not end it: main goes on within the step it is
\* in, to a place it has not been at, or the step has succeeded and the next
\* one of the order starts.
StepsFollow(order) ==
    (pc # "exited" /\ pc' # "exited")
        => /\ exit_code' = -1 /\ error' = ""
           /\ pc' # pc
           /\ \/ StepAt(pc') = StepAt(pc) /\ pc' \notin {"start", "secret_key",
                                                         "get_latest_release", "gist_fetch"}
              \/ PositionIn(order, StepAt(pc')[1]) = PositionIn(order, StepAt(pc)[2]) + 1

\* C20 as claimed: every run executes its steps in the order Init,
\* VersionBump, Build, LocateArtifact, RenameArtifact, ReadSignature,
\* EnsureRelease, UploadAsset, UpdateOrCreateManifest, Done; no step starts
\* before the preceding one has succeeded and no step is executed twice.
C20_StepOrder ==
    [][StepsFollow(<<"Init", "VersionBump", "Build", "LocateArtifact", "RenameArtifact",
                     "ReadSignature", "EnsureRelease", "UploadAsset",
                     "UpdateOrCreateManifest", "Done">>)]_vars

\* C20 as amended: the order is Init, VersionBump, Build, ReadSignature,
\* LocateArtifact, RenameArtifact, EnsureRelease, UploadAsset,
\* UpdateOrCreateManifest, Done: the signature is read before the artifact
\* is located and renamed.
C20_StepOrderSignatureFirst ==
    [][StepsFollow(<<"Init", "VersionBump", "Build", "ReadSignature", "LocateArtifact",
                     "RenameArtifact", "EnsureRelease", "UploadAsset",
                     "UpdateOrCreateManifest", "Done">>)]_vars

\* C20 witness: a run has gone through every step: the signature is read,
\* the artifact renamed, the asset uploaded and the manifest written.
C20_Witness ==
    /\ pc = "exited" /\ exit_code = 0
    /\ sig_content # NoContent
    /\ new_filepath(operating_system, platform_key) \in DOMAIN fs_files
    /\ release_asset_url # NoAsset
    /\ CallsOf("patch_gist") \cup CallsOf("create_gist") # {}

(***************************************************************************)
(* The tool's own configuration file (tauri_javelin.conf.json).           *)
(***************************************************************************)

\* A step that stores the identifier of a manifest created in this step, and
\* ends the run with success.
StoresCreatedGistId ==
    /\ GistCreated
    /\ exit_code' = 0
    /\ javelin_conf' = [javelin_conf EXCEPT !.gist_id = CreatedId]

\* C21 as claimed: the tool's configuration file is written only to store
\* the gist identifier after a successful first manifest creation; on every
\* other path, every failure and rollback path included, its content is
\* unchanged.
C21_ToolConfigWrittenOnlyForGistId ==
    [][javelin_conf' # javelin_conf => StoresCreatedGistId]_vars

(***************************************************************************)
(* The headers of the remote calls.                                       *)
(***************************************************************************)

\* C22 as claimed: every remote call (release lookup, release creation,
\* asset upload, manifest creation, manifest fetch, manifest update) carries
\* the credential as a bearer token and a User-Agent header.
C22_BearerAndUserAgentOnEveryCall ==
    \A i \in 1..Len(calls) : calls[i].auth = "bearer" /\ calls[i].user_agent # ""

(***************************************************************************)
(* What a successful run leaves behind.                                   *)
(***************************************************************************)

\* The run uploaded an asset, and the remote manifest holds for the run's
\* platform key the URL that upload returned and the signature the run read,
\* under a version that is both the persisted version and the name of the
\* release uploaded to.
Published ==
    /\ CallsOf("upload_asset") # {}
    /\ release_asset_url # NoAsset
    /\ release_asset_url.name \in releases[release_asset_url.release].assets
    /\ ConfiguredManifest.platforms[platform_key] = new_platform_detail
    /\ ConfiguredManifest.version = PersistedVersion
    /\ ConfiguredManifest.version = release.name

\* C23 as claimed: no partial success.  Whenever a run terminates with exit
\* status 0, the asset was uploaded in that run, the remote manifest holds
\* for the run's platform key the URL returned by that upload and the
\* signature read in that run, and the manifest's version equals both the
\* persisted version and the name of the release uploaded to.
C23_NoPartialSuccess ==
    (pc = "exited" /\ exit_code = 0) => Published

(***************************************************************************)
(* The build comes before every remote call.                              *)
(***************************************************************************)

\* The positions of main at which a GitHub call is issued.
RemoteSteps ==
    {"get_latest_release", "create_release", "upload",
     "gist_fetch", "gist_patch", "gist_create"}

\* The run stopped at the build: it could not be started, or it exited with
\* failure.
BuildFailed == error \in {"build_not_started", "build_failed"}

\* C25: no remote call before a successful build.  A GitHub call is issued
\* only after the build exited with success, the signature was read and the
\* artifact was renamed, in that order; a run whose build fails issues no
\* remote call.
C25_NoRemoteCallBeforeBuild ==
    [][/\ CallIssued
          => /\ pc \in RemoteSteps
             /\ sig_content # NoContent
             /\ new_filepath(operating_system, platform_key) \in DOMAIN fs_files
       /\ (pc' \in RemoteSteps /\ pc \notin RemoteSteps)
          => /\ pc = "rename"
             /\ sig_content # NoContent
             /\ bundle_filepath(operating_system) \in DOMAIN fs_files
             /\ new_filepath(operating_system, platform_key) \in DOMAIN fs_files'
       /\ (pc' = "rename" /\ pc # "rename")
          => pc = "read_sig" /\ sig_content' = fs_files[sig_file_path]
       /\ (pc' = "read_sig" /\ pc # "read_sig")
          => /\ pc = "build"
             /\ \E out \in BuildOutputs(operating_system, PersistedVersion) :
                    \A p \in DOMAIN out : p \in DOMAIN fs_files' /\ fs_files'[p] = out[p]
       /\ BuildFailed' => calls' = <<>>]_vars

\* C25 witness: a run that has issued a remote call; its build succeeded,
\* its signature is read and its bundle is under its new name.
C25_Witness ==
    /\ calls # <<>>
    /\ pc \in RemoteSteps
    /\ sig_content # NoContent
    /\ bundle_filepath(operating_system) \notin DOMAIN fs_files
    /\ new_filepath(operating_system, platform_key) \in DOMAIN fs_files

(***************************************************************************)
(* The signature file that is read.                                       *)
(***************************************************************************)

\* The signature of a bundle sits next to it: the bundle's path with ".sig"
\* appended.
SignatureOf(bundle) == [bundle EXCEPT !.sig = TRUE]

\* C26 as claimed: the signature file read is the one of the running
\* platform's artifact.  For each supported operating system the signature
\* path lies in the same bundle directory and names the same bundle as that
\* operating system's build-output path.
C26_SignatureOfRunningPlatform ==
    (platform_key # "" /\ (pc = "read_sig" \/ sig_content # NoContent))
        => /\ sig_file_path.dir = bundle_filepath(operating_system).dir
           /\ sig_file_path = SignatureOf(bundle_filepath(operating_system))

(***************************************************************************)
(* What persisting a version changes.                                     *)
(***************************************************************************)

\* The failures main handles with exit_with_error!, the rollback.
RollbackFailures ==
    {"build_failed", "get_gist", "gist_file_not_found", "gist_file_without_content",
     "gist_content_undecodable", "patch_gist", "create_gist", "gist_created_without_id",
     "update_entry_in_config"}

\* The step is the bump being persisted: read_and_update_version writes.
VersionPersisted ==
    pc = "read_and_update_version" /\ Len(writes') > Len(writes)

\* The step is a rollback: the run ends through exit_with_error!.
RolledBack == pc # "exited" /\ pc' = "exited" /\ error' \in RollbackFailures

\* Two application manifests with the same fields, equal everywhere but at
\* package.version.
OnlyVersionDiffers(before, after) ==
    /\ DOMAIN after = DOMAIN before
    /\ \A k \in (DOMAIN before) \ {"package"} : after[k] = before[k]
    /\ DOMAIN after.package = DOMAIN before.package
    /\ \A k \in (DOMAIN before.package) \ {"version"} : after.package[k] = before.package[k]

BumpedIndex(type) ==
    CASE type = "Major" -> 1 [] type = "Minor" -> 2 [] type = "Patch" -> 3

\* C30 as claimed: bump never wraps around.  For every version whose
\* segments fit in an unsigned 32-bit integer, the bumped segment of the
\* version returned for Major, Minor or Patch is strictly greater than that
\* segment of the input, also when the segment equals 2^32 - 1.
C30_BumpNeverWraps ==
    (/\ BumpDone
     /\ ValidVersion(current_version)
     /\ update_type \in {"Major", "Minor", "Patch"}
     /\ new_version # NoVersion)
        => LET n == BumpedIndex(update_type)
           IN  ~DecimalLeq(Canonical(NthSegment(new_version, n)),
                           Canonical(NthSegment(current_version, n)))

(***************************************************************************)
(* The rollback when the tool's configuration file cannot be rewritten    *)
(* (SpecRollback).  A run has persisted its bump and is about to build;   *)
(* since it was started, tauri_javelin.conf.json may have become           *)
(* unreadable, or no longer holds a JSON object.                           *)
(***************************************************************************)

InitRollback ==
    /\ \E g \in InitialGists :
          /\ tauri_conf = [TauriConf(<<"1", ".", "2", ".", "4">>) EXCEPT
                               !.tauri.updater.endpoints = InitialEndpoints(g.gist_id)]
          /\ javelin_conf \in {JavelinConf(g.gist_id)} \cup {Faulty(f) : f \in FileFaults}
          /\ github_gist = g.gist_id
          /\ gists = g.gists
    /\ \E machine \in SupportedMachines :
          /\ operating_system = machine[1]
          /\ architecture = machine[2]
          /\ platform_key = platform_key_of(machine[1], machine[2])
    /\ fs_files = <<>>
    /\ releases = <<>>
    /\ runs = 1
    /\ peer = NoPeer
    /\ pc = "build"
    /\ current_version = <<"1", ".", "2", ".", "3">>
    /\ update_type = "Patch"
    /\ update_notes_str = NotesLine
    /\ new_version = <<"1", ".", "2", ".", "4">>
    /\ sig_content = NoContent
    /\ release = NoRelease
    /\ release_asset_url = NoAsset
    /\ existing_content = NoDoc
    /\ calls = <<>>
    /\ writes = <<tauri_config_path>>
    /\ exit_code = -1
    /\ error = ""
    /\ latest_response = NoResponse

NextRollback ==
    \/ Build
    \/ ReadSignature
    \/ RenameArtifact
    \/ GetLatestRelease
    \/ CreateGithubRelease
    \/ UploadReleaseAsset
    \/ GistFetch
    \/ GistPatch
    \/ GistCreate

SpecRollback == InitRollback /\ [][NextRollback]_vars

\* C28: the rollback is best-effort and never masks the original failure.
\* When the run ends through the rollback and the rollback write fails (the
\* file cannot be read, or is not a JSON object), nothing is written, the
\* failure of the rollback is not reported in place of the original one and
\* the process still terminates with exit status 1.
C28_RollbackFailureNotEscalated ==
    [][RolledBack
          => /\ exit_code' = 1
             /\ error' \in RollbackFailures
             /\ IsFaulty(javelin_conf)
                => /\ reset_version_in_config(javelin_conf, current_version).result.kind = "Err"
                   /\ javelin_conf' = javelin_conf
                   /\ \A i \in (Len(writes) + 1)..Len(writes') : writes'[i] # config_path]_vars

\* C28 witness: a build failed while the tool's configuration file could
\* not be read; the run has ended with status 1 and the file is as it was.
C28_Witness ==
    /\ pc = "exited"
    /\ error = "build_failed"
    /\ exit_code = 1
    /\ IsFaulty(javelin_conf)
    /\ config_path \notin {writes[i] : i \in 1..Len(writes)}

(***************************************************************************)
(* A second platform (SpecSecondPlatform).  A first run, on one machine,  *)
(* has published version 1.0.1: the release holds its asset, the gist it  *)
(* created holds its manifest file, and the gist's identifier is in the   *)
(* configuration.  A later run on a machine of the same or another        *)
(* platform, with that configuration, has built and renamed its bundle    *)
(* for version 1.0.1 or 1.0.2 and is about to look up the release.        *)
(***************************************************************************)

FirstRunVersion == <<"1", ".", "0", ".", "1">>

\* What the first run, on this machine, stored for its platform.
FirstRunDetail(machine) ==
    [signature |-> [kind |-> "sig", os |-> "macos", version |-> FirstRunVersion],
     url |-> [release |-> 1,
              name |-> file_name(new_filepath(machine[1],
                                              platform_key_of(machine[1], machine[2])))]]

\* The manifest the first run created (main, lines 738-747).
FirstRunDoc(machine) ==
    [version |-> FirstRunVersion,
     notes |-> trim(NotesLine),
     pub_date |-> 1,
     platforms |-> platform_key_of(machine[1], machine[2]) :> FirstRunDetail(machine)]

InitSecondPlatform ==
    /\ \E first \in SupportedMachines :
          /\ releases = <<[name |-> FirstRunVersion,
                           assets |-> {FirstRunDetail(first).url.name}]>>
          /\ gists = "1" :> (gist_filename(github_repo, platform_key_of(first[1], first[2]))
                                 :> GistFile(GistContent_to_string(FirstRunDoc(first))))
    /\ \E machine \in SupportedMachines :
          /\ operating_system = machine[1]
          /\ architecture = machine[2]
          /\ platform_key = platform_key_of(machine[1], machine[2])
          /\ \E v \in {<<"1", ".", "0", ".", "0">>, FirstRunVersion} :
                /\ current_version = v
                /\ new_version = update_version(v, "Patch", TRUE).value
                /\ fs_files = new_filepath(machine[1], platform_key)
                                  :> [kind |-> "bundle", os |-> machine[1],
                                      version |-> new_version]
                              @@ sig_file_path
                                  :> [kind |-> "sig", os |-> "macos", version |-> new_version]
                /\ sig_content = [kind |-> "sig", os |-> "macos", version |-> new_version]
                /\ tauri_conf = [TauriConf(new_version) EXCEPT
                                     !.tauri.updater.endpoints = InitialEndpoints("1")]
    /\ javelin_conf = JavelinConf("1")
    /\ github_gist = "1"
    /\ runs = 2
    /\ peer = NoPeer
    /\ pc = "get_latest_release"
    /\ update_type = "Patch"
    /\ update_notes_str = NotesLine
    /\ release = NoRelease
    /\ release_asset_url = NoAsset
    /\ existing_content = NoDoc
    /\ calls = <<>>
    /\ writes = <<tauri_config_path>>
    /\ exit_code = -1
    /\ error = ""
    /\ latest_response = NoResponse

NextSecondPlatform ==
    \/ GetLatestRelease
    \/ CreateGithubRelease
    \/ UploadReleaseAsset
    \/ GistFetch
    \/ GistPatch

SpecSecondPlatform == InitSecondPlatform /\ [][NextSecondPlatform]_vars

\* The machines whose first-run manifest file is in the configured gist as
\* the first run left it.
FirstRunMachines ==
    {m \in SupportedMachines :
        LET filename == gist_filename(github_repo, platform_key_of(m[1], m[2]))
        IN  /\ filename \in DOMAIN gists[github_gist]
            /\ gists[github_gist][filename] = GistFile(GistContent_to_string(FirstRunDoc(m)))}

\* The run is on another platform than the first run.
OnSecondPlatform ==
    /\ FirstRunMachines # {}
    /\ \A m \in FirstRunMachines : platform_key_of(m[1], m[2]) # platform_key

\* C24 as claimed: platforms coexist in one manifest across runs.  After a
\* first run on platform A created the manifest and stored its identifier,
\* a later run on a different platform B with that identifier configured
\* succeeds in its manifest update (when GitHub serves its requests), and
\* afterwards the manifest's platform mapping contains both A's entry,
\* unchanged, and B's entry.
C24_PlatformsCoexist ==
    (/\ pc = "exited"
     /\ release_asset_url # NoAsset
     /\ error \notin {"get_gist", "patch_gist"}
     /\ OnSecondPlatform)
        => /\ exit_code = 0
           /\ \E filename \in DOMAIN gists[github_gist] :
                 LET platforms == gists[github_gist][filename].content.platforms
                 IN  /\ platform_key \in DOMAIN platforms
                     /\ platforms[platform_key] = new_platform_detail
                     /\ \A m \in FirstRunMachines :
                           /\ platform_key_of(m[1], m[2]) \in DOMAIN platforms
                           /\ platforms[platform_key_of(m[1], m[2])] = FirstRunDetail(m)

(***************************************************************************)
(* The names of the uploaded assets (checked under SpecSecondPlatform).   *)
(***************************************************************************)

\* The characters of the strings file names are made of.
Chars(str) ==
    CASE str = "" -> <<>>
      [] str = "app" -> <<"a", "p", "p">>
      [] str = "darwin-aarch64" ->
             <<"d", "a", "r", "w", "i", "n", "-", "a", "a", "r", "c", "h", "6", "4">>
      [] str = "darwin-x86_64" ->
             <<"d", "a", "r", "w", "i", "n", "-", "x", "8", "6", "_", "6", "4">>
      [] str = "linux-x86_64" ->
             <<"l", "i", "n", "u", "x", "-", "x", "8", "6", "_", "6", "4">>
      [] str = "windows-x86_64" ->
             <<"w", "i", "n", "d", "o", "w", "s", "-", "x", "8", "6", "_", "6", "4">>
      [] str = "app.tar.gz" -> <<"a", "p", "p", ".", "t", "a", "r", ".", "g", "z">>
      [] str = "msi.zip" -> <<"m", "s", "i", ".", "z", "i", "p">>
      [] str = "AppImage.tar.gz" ->
             <<"A", "p", "p", "I", "m", "a", "g", "e", ".", "t", "a", "r", ".", "g", "z">>

\* filename.file_name().unwrap().to_str().unwrap(), what upload_release_asset
\* puts after "?name=": "{productName}-{platform_key}.{ext}" as one string.
to_str(name) == Chars(name[1]) \o <<"-">> \o Chars(name[2]) \o <<".">> \o Chars(name[3])

\* The asset name a run on this machine uploads.
AssetName(machine) ==
    to_str(file_name(new_filepath(machine[1], platform_key_of(machine[1], machine[2]))))

\* C29: distinct platforms get distinct asset names.  For the product name
\* at hand the renamed upload file name is an injective function of the
\* platform key: two machines get the same name exactly when they have the
\* same platform key.  So a run on a second platform is never about to upload
\* under a name its release already holds, and what it has uploaded is
\* another asset than the first platform's; when both built the same version
\* the release holds both.
C29_AssetNameInjective ==
    /\ \A m1, m2 \in SupportedMachines :
          (platform_key_of(m1[1], m1[2]) = platform_key_of(m2[1], m2[2]))
              <=> (AssetName(m1) = AssetName(m2))
    /\ (OnSecondPlatform /\ pc = "upload")
          => \A name \in releases[release.upload_url].assets :
                to_str(name) # to_str(file_name(new_filepath(operating_system, platform_key)))
    /\ (OnSecondPlatform /\ release_asset_url # NoAsset)
          => /\ \A m \in FirstRunMachines :
                   to_str(release_asset_url.name) # to_str(FirstRunDetail(m).url.name)
             /\ release.name = FirstRunVersion
                   => \A m \in FirstRunMachines :
                         {release_asset_url.name, FirstRunDetail(m).url.name}
                             \subseteq releases[release_asset_url.release].assets

\* C29 witness: a run on a second platform has uploaded its build of the
\* version the first platform published; the release holds two assets.
C29_Witness ==
    /\ OnSecondPlatform
    /\ release_asset_url # NoAsset
    /\ release.name = FirstRunVersion
    /\ Cardinality(releases[release_asset_url.release].assets) = 2

====
